---- MODULE Spec2Model ----
(***************************************************************************)
(* Texas Bill Analyzer: the identifier parser, the cache key, the URL      *)
(* resolvers, the cache layer and the request / background-job pipeline of *)
(* src/app.py and src/tasks.py.                                            *)
(*                                                                         *)
(* A Python str is a sequence of one-character strings; None is the        *)
(* one-element sequence <<"None">>, which is no character sequence.        *)
(***************************************************************************)
EXTENDS Integers, Sequences, FiniteSets, Bags, TLC

VARIABLES
    raw,        \* ParseSpec: the bill_number string handed to the parser / key function
    pout,       \* ParseSpec: the last call made on raw and what it returned
    rs,         \* ResolverSpec: the last resolver call, the upstream's answers and its return
    CACHE_ENABLED,  \* app.py: set once at import, when REDIS_URL is set and the ping answers
    store,      \* the Redis cache entries: a set of [key, val: JSON text, ttl: seconds left]
    last_success,   \* the Redis key last_success_bill (None until a first write)
    storeUp,    \* whether Redis answers; when it does not, every redis_client call raises
    hist,       \* CacheSpec: the last two cache-layer calls, with what they returned
    run,        \* PipelineSpec: the last pipeline run: its inputs, result and call log
    job_queue,  \* Spec: the RQ queue: whether app.py built it, and the ids waiting
    jobs,       \* Spec: the jobs enqueued so far, by id: arguments, status, result
    reqs,       \* Spec: the requests that missed the cache and have yet to run the pipeline
    last,       \* Spec: the most recent HTTP response, with what its handler read and did
    clock,      \* Spec: the pipeline runs so far; the next run's timestamp
    fn          \* TextSpec: the last call of a text function: arguments and return

parseVars == <<raw, pout>>

resolverVars == <<rs>>

cacheVars == <<CACHE_ENABLED, store, last_success, storeUp>>

sysVars == <<job_queue, jobs, reqs, last, clock>>

vars == <<raw, pout, rs, CACHE_ENABLED, store, last_success, storeUp, hist, run,
          job_queue, jobs, reqs, last, clock, fn>>

(***************************************************************************)
(* Python string primitives used by the parser and the cache key.          *)
(***************************************************************************)
None == <<"None">>

WhitespaceChars == {" ", "\t", "\n", "\r", "\f"}

DigitChars == {"0", "1", "2", "3", "4", "5", "6", "7", "8", "9"}

UpperLetters ==
    <<"A", "B", "C", "D", "E", "F", "G", "H", "I", "J", "K", "L", "M",
      "N", "O", "P", "Q", "R", "S", "T", "U", "V", "W", "X", "Y", "Z">>

LowerLetters ==
    <<"a", "b", "c", "d", "e", "f", "g", "h", "i", "j", "k", "l", "m",
      "n", "o", "p", "q", "r", "s", "t", "u", "v", "w", "x", "y", "z">>

LetterIndex(alphabet, c) == CHOOSE i \in 1..Len(alphabet) : alphabet[i] = c

\* str.upper() on one character
UpperChar(c) ==
    IF \E i \in 1..Len(LowerLetters) : LowerLetters[i] = c
    THEN UpperLetters[LetterIndex(LowerLetters, c)]
    ELSE c

\* str.lower() on one character
LowerChar(c) ==
    IF \E i \in 1..Len(UpperLetters) : UpperLetters[i] = c
    THEN LowerLetters[LetterIndex(UpperLetters, c)]
    ELSE c

str_upper(s) == [i \in 1..Len(s) |-> UpperChar(s[i])]

str_lower(s) == [i \in 1..Len(s) |-> LowerChar(s[i])]

RECURSIVE str_lstrip(_)
str_lstrip(s) ==
    IF Len(s) > 0 /\ s[1] \in WhitespaceChars THEN str_lstrip(Tail(s)) ELSE s

RECURSIVE str_rstrip(_)
str_rstrip(s) ==
    IF Len(s) > 0 /\ s[Len(s)] \in WhitespaceChars
    THEN str_rstrip(SubSeq(s, 1, Len(s) - 1))
    ELSE s

str_strip(s) == str_rstrip(str_lstrip(s))

\* str.replace(' ', ''): removes the space character only
str_remove_spaces(s) == SelectSeq(s, LAMBDA c : c # " ")

\* str.zfill(width): pads on the left, never truncates
RECURSIVE str_zfill(_, _)
str_zfill(s, width) ==
    IF Len(s) >= width THEN s ELSE str_zfill(<<"0">> \o s, width)

\* end (exclusive) of the run of characters of cls that starts at position i
RECURSIVE RunEnd(_, _, _)
RunEnd(s, i, cls) ==
    IF i <= Len(s) /\ s[i] \in cls THEN RunEnd(s, i + 1, cls) ELSE i

\* re.match(r"([HS][BRJ])\s*(\d+)", s): anchored at the start only
BillMatchAnchored(s) ==
    LET head == Len(s) >= 2 /\ s[1] \in {"H", "S"} /\ s[2] \in {"B", "R", "J"}
        p    == RunEnd(s, 3, WhitespaceChars)
        q    == RunEnd(s, p, DigitChars)
    IN  IF head /\ q > p
        THEN [matched |-> TRUE, g1 |-> SubSeq(s, 1, 2), g2 |-> SubSeq(s, p, q - 1),
              end |-> q]
        ELSE [matched |-> FALSE, g1 |-> None, g2 |-> None, end |-> 0]

BillMatch(s) == BillMatchAnchored(s)

ZFILL_WIDTH == 5

PadNumberNoFill(digits) == digits

\* bill_num = match.group(2).zfill(5)
PadNumber(digits) == str_zfill(digits, ZFILL_WIDTH)

\* parse_bill_number: (bill_type, bill_num), or (None, None)
parse_bill_number(bill_number) ==
    LET m == BillMatch(str_strip(str_upper(bill_number)))
    IN  IF ~m.matched THEN <<None, None>> ELSE <<m.g1, PadNumber(m.g2)>>

\* the literal "bill_analysis:"
KeyPrefix == <<"b", "i", "l", "l", "_", "a", "n", "a", "l", "y", "s", "i", "s", ":">>

\* get_cache_key
get_cache_key(bill_number, session) ==
    LET m == BillMatch(str_strip(str_upper(bill_number)))
        normalized == IF m.matched
                      THEN m.g1 \o PadNumber(m.g2)
                      ELSE str_remove_spaces(str_upper(bill_number))
    IN  KeyPrefix \o session \o <<":">> \o normalized

(***************************************************************************)
(* Cache layer.  A dict is a record; the None a function returns in place  *)
(* of a dict is NoneDict.  json.dumps wraps the dict into the text Redis   *)
(* holds and json.loads unwraps it: the results cached have string keys    *)
(* and str / int / bool / None values, which JSON carries unchanged.       *)
(***************************************************************************)
NoneDict == [none |-> TRUE]

json_dumps(data) == [json |-> data]

json_loads(text) == text.json

DefaultTTL == 86400

\* the entries of a store under one key (none or one)
Entries(st, key) == {e \in st : e.key = key}

\* redis_client.get(key) found a value: `if cached:` (a JSON text is never empty)
redis_has(st, key) == Entries(st, key) # {}

redis_get(st, key) == (CHOOSE e \in Entries(st, key) : TRUE).val

\* redis_client.setex(key, ttl, value): replaces the entry, whatever it held
redis_setex(st, key, ttl, value) ==
    (st \ Entries(st, key)) \cup {[key |-> key, val |-> value, ttl |-> ttl]}

\* redis_client.delete(key)
redis_delete(st, key) == st \ Entries(st, key)

\* the passing of d seconds: Redis drops the entries whose time is up
redis_expire(st, d) ==
    {[key |-> e.key, val |-> e.val, ttl |-> e.ttl - d] : e \in {x \in st : x.ttl > d}}

\* get_cached_analysis, on the store st with Redis answering (up) or raising
get_cached_analysis_on(enabled, up, st, bill_number, session) ==
    IF ~enabled THEN NoneDict
    ELSE IF ~up THEN NoneDict
    ELSE LET key == get_cache_key(bill_number, session)
         IN  IF redis_has(st, key) THEN json_loads(redis_get(st, key)) ELSE NoneDict

get_cached_analysis(bill_number, session) ==
    get_cached_analysis_on(CACHE_ENABLED, storeUp, store, bill_number, session)

\* a mutant: the entry is written under the bill number as given, not the cache key
cache_analysis_raw_key(enabled, up, st, ls, bill_number, session, data, ttl) ==
    IF ~enabled \/ ~up \/ ttl <= 0 THEN [store |-> st, last_success |-> ls]
    ELSE [store |-> redis_setex(st, KeyPrefix \o session \o <<":">> \o bill_number,
                                ttl, json_dumps(data)),
          last_success |-> bill_number]

\* a mutant: the call writes nothing
cache_analysis_dropped(enabled, up, st, ls, bill_number, session, data, ttl) ==
    [store |-> st, last_success |-> ls]

\* a mutant: the entry is written only when the key holds none (SET NX)
cache_analysis_if_absent(enabled, up, st, ls, bill_number, session, data, ttl) ==
    IF ~enabled \/ ~up \/ ttl <= 0 \/ redis_has(st, get_cache_key(bill_number, session))
    THEN [store |-> st, last_success |-> ls]
    ELSE [store |-> redis_setex(st, get_cache_key(bill_number, session), ttl,
                                json_dumps(data)),
          last_success |-> bill_number]

\* a mutant: the write is made although Redis does not answer
cache_analysis_ignores_outage(enabled, up, st, ls, bill_number, session, data, ttl) ==
    IF ~enabled \/ ttl <= 0 THEN [store |-> st, last_success |-> ls]
    ELSE [store |-> redis_setex(st, get_cache_key(bill_number, session), ttl,
                                json_dumps(data)),
          last_success |-> bill_number]

\* cache_analysis: the store and last_success_bill after the call.  A raising Redis
\* call (Redis down, or a ttl that is not positive) is caught and changes nothing.
cache_analysis_on(enabled, up, st, ls, bill_number, session, data, ttl) ==
    IF ~enabled THEN [store |-> st, last_success |-> ls]
    ELSE IF ~up \/ ttl <= 0 THEN [store |-> st, last_success |-> ls]
    ELSE [store |-> redis_setex(st, get_cache_key(bill_number, session), ttl,
                                json_dumps(data)),
          last_success |-> bill_number]

\* a mutant: the entry is given half the default time-to-live
cache_analysis_half_ttl(bill_number, session, data) ==
    cache_analysis_on(CACHE_ENABLED, storeUp, store, last_success,
                      bill_number, session, data, DefaultTTL \div 2)

cache_analysis(bill_number, session, data) ==
    cache_analysis_on(CACHE_ENABLED, storeUp, store, last_success,
                      bill_number, session, data, DefaultTTL)

\* invalidate_cache: the store after the call
invalidate_cache_on(enabled, up, st, bill_number, session) ==
    IF ~enabled THEN st
    ELSE IF ~up THEN st
    ELSE redis_delete(st, get_cache_key(bill_number, session))

invalidate_cache(bill_number, session) ==
    invalidate_cache_on(CACHE_ENABLED, storeUp, store, bill_number, session)


(***************************************************************************)
(* Inputs of the parser: free-form identifiers                             *)
(*   lead whitespace, type letters, whitespace, digits, tail.              *)
(***************************************************************************)
MaxWs == 2

MaxDigits == 6

RECURSIVE SeqsUpTo(_, _)
SeqsUpTo(S, n) ==
    IF n = 0 THEN {<<>>}
    ELSE LET shorter == SeqsUpTo(S, n - 1)
         IN  shorter \cup {Append(s, c) : s \in {t \in shorter : Len(t) = n - 1}, c \in S}

TypeWords ==
    {<<"H", "B">>, <<"S", "B">>, <<"H", "J", "R">>, <<"S", "J", "R">>,
     <<"H", "R">>, <<"S", "R">>, <<"H", "J">>, <<"S", "J">>,
     <<"X", "Y">>, <<>>}

TypeInputs ==
    TypeWords \cup {<<"h", "b">>, <<"H", "b">>, <<"s", "b">>, <<"h", "j", "r">>}

\* lead and tail put around type, whitespace and digits
PadInputs ==
    {<< <<>>, <<>> >>, << <<" ">>, <<>> >>, << <<>>, <<" ">> >>, << <<>>, <<"X">> >>}

Session89R == <<"8", "9", "R">>

Session88R == <<"8", "8", "R">>

Sessions == {Session89R, Session88R}

NoCall == [op |-> "none", session |-> <<>>, val |-> <<>>]

NoResolve == [kind |-> "idle", head |-> <<>>, probed |-> <<>>, ret |-> <<>>,
              raised |-> FALSE, want |-> <<>>]

NoRun == [who |-> "idle", bill |-> <<>>, session |-> <<>>, up |-> NoneDict,
          out |-> NoneDict]

ParseIdle == raw = <<>> /\ pout = NoCall

PipelineIdle == run = NoRun

NoResponse ==
    [ep |-> "none", bill |-> <<>>, force_refresh |-> FALSE, use_async |-> FALSE,
     had |-> NoneDict, code |-> 0, body |-> NoneDict, log |-> <<>>, over |-> NoneDict]

NoFn == [op |-> "none", arg |-> <<>>, ai |-> NoneDict, ret |-> NoneDict, raised |-> FALSE]

FnIdle == fn = NoFn

SysIdle ==
    /\ job_queue = [on |-> FALSE, ids |-> <<>>]
    /\ jobs = <<>>
    /\ reqs = EmptyBag
    /\ last = NoResponse
    /\ clock = 0

ResolverIdle == rs = NoResolve

\* outside the specifications that use the cache: no Redis configured
CacheOff ==
    /\ CACHE_ENABLED = FALSE
    /\ store = {}
    /\ last_success = None
    /\ storeUp = FALSE
    /\ hist = <<>>

ParseInit ==
    /\ ResolverIdle
    /\ PipelineIdle
    /\ SysIdle
    /\ FnIdle
    /\ CacheOff
    /\ \E t \in TypeInputs, w \in SeqsUpTo({" ", "\t"}, MaxWs),
          d \in SeqsUpTo({"0", "1"}, MaxDigits), x \in PadInputs :
          raw = x[1] \o t \o w \o d \o x[2]
    /\ pout = NoCall

\* a call of parse_bill_number(raw)
ParseBillNumber ==
    /\ pout.op = "none"
    /\ pout' = [op |-> "parse", session |-> <<>>, val |-> parse_bill_number(raw)]
    /\ UNCHANGED <<raw, resolverVars, cacheVars, hist, run, sysVars, fn>>

\* a call of get_cache_key(raw, session)
GetCacheKey ==
    /\ pout.op = "none"
    /\ \E session \in Sessions :
          pout' = [op |-> "key", session |-> session,
                   val |-> <<get_cache_key(raw, session)>>]
    /\ UNCHANGED <<raw, resolverVars, cacheVars, hist, run, sysVars, fn>>

ParseNext == ParseBillNumber \/ GetCacheKey

ParseSpec == ParseInit /\ [][ParseNext]_vars

(***************************************************************************)
(* URL resolvers.  A URL is the sequence of its literal pieces and of the  *)
(* characters of session, type and number.  head[i] is what the upstream   *)
(* answers to requests.head on the i-th candidate: a status code, or       *)
(* "error" when the call raises (timeout, connection failure).             *)
(***************************************************************************)
TELICON_BASE_URL == <<"https://www.telicon.com/www/TX">>

HeadOutcomes == {"200", "404", "500", "error"}

BillPatterns(bill_type, bill_num, session) ==
    << [url  |-> TELICON_BASE_URL \o <<"/">> \o session \o <<"/pdf/TX">> \o session
                    \o bill_type \o bill_num \o <<"FIL.pdf">>,
        type |-> <<"primary">>],
       [url  |-> TELICON_BASE_URL \o <<"/">> \o session \o <<"/pdf/">>
                    \o bill_type \o bill_num \o <<"FIL.pdf">>,
        type |-> <<"fallback_no_session_in_name">>],
       [url  |-> TELICON_BASE_URL \o <<"/">> \o session \o <<"/bills/TX">> \o session
                    \o bill_type \o bill_num \o <<".pdf">>,
        type |-> <<"fallback_bills_dir">>],
       [url  |-> TELICON_BASE_URL \o <<"/bills/">> \o session \o <<"/">>
                    \o bill_type \o bill_num \o <<".pdf">>,
        type |-> <<"fallback_flat">>] >>

FiscalPatterns(bill_type, bill_num, session) ==
    << [url  |-> TELICON_BASE_URL \o <<"/">> \o session \o <<"/fnote/TX">> \o session
                    \o bill_type \o bill_num \o <<"FIL.pdf">>,
        type |-> <<"primary">>],
       [url  |-> TELICON_BASE_URL \o <<"/">> \o session \o <<"/fnote/">>
                    \o bill_type \o bill_num \o <<"FIL.pdf">>,
        type |-> <<"fallback_no_session_in_name">>],
       [url  |-> TELICON_BASE_URL \o <<"/">> \o session \o <<"/fiscal/">>
                    \o bill_type \o bill_num \o <<".pdf">>,
        type |-> <<"fallback_fiscal_dir">>] >>

NumBillPatterns == 4

NumFiscalPatterns == 3

\* a mutant: the loop does not return at the first 200; the last 200 wins
RECURSIVE ProbeLoopLastWins(_, _, _, _)
ProbeLoopLastWins(patterns, head, i, probed) ==
    IF i > Len(patterns)
    THEN LET ok == {j \in 1..Len(patterns) : head[j] = "200"}
         IN  [ret |-> IF ok = {} THEN <<None, None>>
                      ELSE LET k == CHOOSE j \in ok : \A l \in ok : l <= j
                           IN  <<patterns[k].url, patterns[k].type>>,
              probed |-> probed, raised |-> FALSE]
    ELSE ProbeLoopLastWins(patterns, head, i + 1, Append(probed, i))

\* a mutant: an exception raised by requests.head is not caught
RECURSIVE ProbeLoopRaises(_, _, _, _)
ProbeLoopRaises(patterns, head, i, probed) ==
    IF i > Len(patterns)
    THEN [ret |-> <<None, None>>, probed |-> probed, raised |-> FALSE]
    ELSE IF head[i] = "200"
         THEN [ret |-> <<patterns[i].url, patterns[i].type>>,
               probed |-> Append(probed, i), raised |-> FALSE]
         ELSE IF head[i] = "error"
              THEN [ret |-> <<None, None>>, probed |-> Append(probed, i),
                    raised |-> TRUE]
              ELSE ProbeLoopRaises(patterns, head, i + 1, Append(probed, i))

\* for pattern in patterns: try: requests.head ... return on 200; except: continue;
\* return None, None.  probed lists the candidates a HEAD was sent to, in order.
RECURSIVE ProbeLoop(_, _, _, _)
ProbeLoop(patterns, head, i, probed) ==
    IF i > Len(patterns)
    THEN [ret |-> <<None, None>>, probed |-> probed, raised |-> FALSE]
    ELSE IF head[i] = "200"
         THEN [ret |-> <<patterns[i].url, patterns[i].type>>,
               probed |-> Append(probed, i), raised |-> FALSE]
         ELSE ProbeLoop(patterns, head, i + 1, Append(probed, i))

\* app.py
try_bill_url_patterns(bill_type, bill_num, session, head) ==
    ProbeLoop(BillPatterns(bill_type, bill_num, session), head, 1, <<>>)

try_fiscal_note_patterns(bill_type, bill_num, session, head) ==
    ProbeLoop(FiscalPatterns(bill_type, bill_num, session), head, 1, <<>>)

\* tasks.py holds its own copies of the two resolvers, with the same text
task_try_bill_url_patterns(bill_type, bill_num, session, head) ==
    ProbeLoop(BillPatterns(bill_type, bill_num, session), head, 1, <<>>)

task_try_fiscal_note_patterns(bill_type, bill_num, session, head) ==
    ProbeLoop(FiscalPatterns(bill_type, bill_num, session), head, 1, <<>>)

(***************************************************************************)
(* The analysis pipeline.  up holds what the outside world answers to one  *)
(* run: bh / fh the answers to the HEAD probes of the bill / fiscal-note   *)
(* candidates, bg / fg the outcome of the GET ("200", another status,      *)
(* "timeout" or "error" for any other exception), bt / ft the text the PDF *)
(* extractor returns ("" when extraction fails), sm the bill summary and   *)
(* ai the dict the fiscal summarizer returns.  A run returns its result    *)
(* and the log of the calls it made, in order.                             *)
(***************************************************************************)
fiscal_keywords ==
    << <<"a", "p", "p", "r", "o", "p", "r", "i", "a", "t", "i", "o", "n">>,
       <<"f", "u", "n", "d", "i", "n", "g">>,
       <<"b", "u", "d", "g", "e", "t">>,
       <<"f", "i", "s", "c", "a", "l", " ", "i", "m", "p", "a", "c", "t">>,
       <<"c", "o", "s", "t">>,
       <<"r", "e", "v", "e", "n", "u", "e">>,
       <<"e", "x", "p", "e", "n", "d", "i", "t", "u", "r", "e">>,
       <<"m", "i", "l", "l", "i", "o", "n">>,
       <<"b", "i", "l", "l", "i", "o", "n">>,
       <<"g", "r", "a", "n", "t">>,
       <<"a", "l", "l", "o", "c", "a", "t", "i", "o", "n">>,
       <<"f", "i", "n", "a", "n", "c", "i", "a", "l">> >>

IsSubstring(needle, hay) ==
    \E i \in 1..(Len(hay) - Len(needle) + 1) :
        SubSeq(hay, i, i + Len(needle) - 1) = needle

\* a mutant: the text is not lower-cased
should_fetch_case_sensitive(bill_text) ==
    \E k \in 1..Len(fiscal_keywords) : IsSubstring(fiscal_keywords[k], bill_text)

\* should_fetch_fiscal_note
should_fetch_fiscal_note(bill_text) ==
    \E k \in 1..Len(fiscal_keywords) : IsSubstring(fiscal_keywords[k], str_lower(bill_text))

\* s[:n]
Take(s, n) == SubSeq(s, 1, IF Len(s) < n THEN Len(s) ELSE n)

TEXT_EXCERPT == 3000

\* one log entry per HEAD probe sent
HeadLog(kind, probed) == [i \in 1..Len(probed) |-> kind]

CountOf(log, step) == Cardinality({i \in 1..Len(log) : log[i] = step})

\* format_complete_response: the text is a function of exactly these arguments
format_complete_response(bill_number, bill_summary, fiscal_note_summary, total_fiscal_impact, fiscal_note_url) ==
    IF fiscal_note_summary # <<>>
    THEN [layout |-> "fiscal", bill_number |-> bill_number, summary |-> bill_summary,
          fiscal |-> fiscal_note_summary, total |-> total_fiscal_impact,
          url |-> fiscal_note_url]
    ELSE [layout |-> "no_fiscal", bill_number |-> bill_number, summary |-> bill_summary,
          fiscal |-> <<>>, total |-> 0, url |-> None]

\* dict d has key k with value v
Has(d, k, v) == k \in DOMAIN d /\ d[k] = v

\* dict.get(key, default)
DictGet(d, key, default) == IF key \in DOMAIN d THEN d[key] ELSE default

\* FiscalPart with the fetched note and its summary thrown away
FiscalPartDropsNote(up, relevant, found, headStep, getStep, extractStep, aiStep) ==
    LET none == [url |-> None, summary |-> <<>>, impact |-> 0, text |-> None]
    IN  IF ~relevant THEN [f |-> none, log |-> <<>>]
        ELSE [f |-> [none EXCEPT !.url = found.ret[1]],
              log |-> HeadLog(headStep, found.probed)]

\* FiscalPart with the GET sent before the resolver's probes
FiscalPartFetchesFirst(up, relevant, found, headStep, getStep, extractStep, aiStep) ==
    LET none == [url |-> None, summary |-> <<>>, impact |-> 0, text |-> None]
        heads == HeadLog(headStep, found.probed)
    IN  IF ~relevant THEN [f |-> none, log |-> <<>>]
        ELSE [f |-> [url |-> found.ret[1],
                     summary |-> DictGet(up.ai, "fiscal_note_summary", <<>>),
                     impact |-> DictGet(up.ai, "total_fiscal_impact", 0),
                     text |-> up.ft],
              log |-> <<getStep>> \o heads \o <<extractStep, aiStep>>]

\* FiscalPart with a placeholder summary when the fiscal GET fails
FiscalPartPlaceholder(up, relevant, found, headStep, getStep, extractStep, aiStep) ==
    LET none == [url |-> None, summary |-> <<>>, impact |-> 0, text |-> None]
        heads == HeadLog(headStep, found.probed)
    IN  IF ~relevant THEN [f |-> none, log |-> <<>>]
        ELSE IF found.ret[1] = None THEN [f |-> none, log |-> heads]
        ELSE IF up.fg # "200" \/ up.ft = <<>>
             THEN [f |-> [none EXCEPT !.url = found.ret[1], !.summary = <<"n", "/", "a">>],
                   log |-> Append(heads, getStep)]
        ELSE [f |-> [url |-> found.ret[1],
                     summary |-> DictGet(up.ai, "fiscal_note_summary", <<>>),
                     impact |-> DictGet(up.ai, "total_fiscal_impact", 0),
                     text |-> up.ft],
              log |-> heads \o <<getStep, extractStep, aiStep>>]

\* FiscalPart with one probe sent whatever the gate says
FiscalPartProbesAnyway(up, relevant, found, headStep, getStep, extractStep, aiStep) ==
    LET none == [url |-> None, summary |-> <<>>, impact |-> 0, text |-> None]
        heads == HeadLog(headStep, found.probed)
    IN  IF ~relevant THEN [f |-> none, log |-> <<headStep>>]
        ELSE IF found.ret[1] = None THEN [f |-> none, log |-> heads]
        ELSE IF up.fg # "200"
             THEN [f |-> [none EXCEPT !.url = found.ret[1]], log |-> Append(heads, getStep)]
        ELSE IF up.ft = <<>>
             THEN [f |-> [none EXCEPT !.url = found.ret[1], !.text = <<>>],
                   log |-> heads \o <<getStep, extractStep>>]
        ELSE [f |-> [url |-> found.ret[1],
                     summary |-> DictGet(up.ai, "fiscal_note_summary", <<>>),
                     impact |-> DictGet(up.ai, "total_fiscal_impact", 0),
                     text |-> up.ft],
              log |-> heads \o <<getStep, extractStep, aiStep>>]

\* FiscalPart with the URL of the note left out of what it returns
FiscalPartForgetsUrl(up, relevant, found, headStep, getStep, extractStep, aiStep) ==
    LET none == [url |-> None, summary |-> <<>>, impact |-> 0, text |-> None]
        heads == HeadLog(headStep, found.probed)
    IN  IF ~relevant THEN [f |-> none, log |-> <<>>]
        ELSE IF found.ret[1] = None THEN [f |-> none, log |-> heads]
        ELSE IF up.fg # "200" THEN [f |-> none, log |-> Append(heads, getStep)]
        ELSE IF up.ft = <<>>
             THEN [f |-> [none EXCEPT !.text = <<>>],
                   log |-> heads \o <<getStep, extractStep>>]
        ELSE [f |-> [url |-> None,
                     summary |-> DictGet(up.ai, "fiscal_note_summary", <<>>),
                     impact |-> DictGet(up.ai, "total_fiscal_impact", 0),
                     text |-> up.ft],
              log |-> heads \o <<getStep, extractStep, aiStep>>]

\* the fiscal-note part of a run (app.py 551-572, tasks.py 281-303): resolver, GET,
\* extraction, summarizer; an exception of the GET is caught and leaves the defaults
FiscalPart(up, relevant, found, headStep, getStep, extractStep, aiStep) ==
    LET none == [url |-> None, summary |-> <<>>, impact |-> 0, text |-> None]
    IN  IF ~relevant THEN [f |-> none, log |-> <<>>]
        ELSE LET heads == HeadLog(headStep, found.probed)
                 url == found.ret[1]
             IN  IF url = None THEN [f |-> none, log |-> heads]
                 ELSE IF up.fg # "200"
                      THEN [f |-> [none EXCEPT !.url = url],
                            log |-> Append(heads, getStep)]
                 ELSE IF up.ft = <<>>
                      THEN [f |-> [none EXCEPT !.url = url, !.text = <<>>],
                            log |-> heads \o <<getStep, extractStep>>]
                 ELSE [f |-> [url |-> url,
                              summary |-> DictGet(up.ai, "fiscal_note_summary", <<>>),
                              impact |-> DictGet(up.ai, "total_fiscal_impact", 0),
                              text |-> up.ft],
                       log |-> heads \o <<getStep, extractStep, aiStep>>]

\* BillGetFailure with one code for every failure of the GET
BillGetFailureOneCode(bg) ==
    [error |-> "str(e)", error_code |-> "BILL_FETCH_ERROR", success |-> FALSE]

\* the error result of a bill GET that did not answer 200 (app.py 514-534): a
\* non-200 status, a requests Timeout, any other exception
BillGetFailure(bg) ==
    IF bg = "timeout"
    THEN [error |-> "Bill fetch timed out", error_code |-> "TIMEOUT", success |-> FALSE]
    ELSE IF bg = "error"
    THEN [error |-> "str(e)", error_code |-> "BILL_FETCH_ERROR", success |-> FALSE]
    ELSE [error |-> "Failed to fetch bill (HTTP status)",
          error_code |-> "BILL_FETCH_FAILED", success |-> FALSE]

\* perform_bill_analysis (app.py); now is the reading of datetime.utcnow()
perform_bill_analysis(bill_number, session, up, now) ==
    LET parsed == parse_bill_number(bill_number)
        bill_type == parsed[1]
        bill_num == parsed[2]
    IN  IF bill_type = None \/ bill_num = None
        THEN [result |-> [error |-> "Invalid bill format. Use format like 'HB 150' or 'SB 2'",
                          error_code |-> "INVALID_BILL_FORMAT", success |-> FALSE],
              log |-> <<>>]
        ELSE
        LET formatted_bill == bill_type \o bill_num
            found == try_bill_url_patterns(bill_type, bill_num, session, up.bh)
            bill_url == found.ret[1]
            heads == HeadLog("head_bill", found.probed)
        IN  IF bill_url = None
            THEN [result |-> [bill_number |-> formatted_bill, session |-> session,
                              exists |-> FALSE, success |-> FALSE,
                              error |-> "Bill not found in Telicon system",
                              error_code |-> "BILL_NOT_FOUND"],
                  log |-> heads]
            ELSE IF up.bg # "200"
            THEN [result |-> BillGetFailure(up.bg), log |-> Append(heads, "get_bill")]
            ELSE IF up.bt = <<>>
            THEN [result |-> [error |-> "Could not extract bill text from PDF",
                              error_code |-> "PDF_EXTRACTION_FAILED", success |-> FALSE],
                  log |-> heads \o <<"get_bill", "extract_bill">>]
            ELSE
            LET bill_text == up.bt
                bill_summary == up.sm
                relevant == should_fetch_fiscal_note(bill_text)
                fp == FiscalPart(up, relevant,
                          try_fiscal_note_patterns(bill_type, bill_num, session, up.fh),
                          "head_fiscal", "get_fiscal", "extract_fiscal", "summarize_fiscal")
                f == fp.f
            IN  [result |->
                    [bill_number |-> formatted_bill,
                     bill_type |-> bill_type,
                     session |-> session,
                     bill_url |-> bill_url,
                     fiscal_note_url |-> f.url,
                     bill_text |-> Take(bill_text, TEXT_EXCERPT),
                     fiscal_note_summary |-> f.summary,
                     total_fiscal_impact |-> f.impact,
                     has_fiscal_note |-> (f.summary # <<>>),
                     formatted_response |->
                         format_complete_response(formatted_bill, bill_summary, f.summary,
                             f.impact,
                             IF f.url # None THEN f.url
                             ELSE <<"No fiscal note available">>),
                     exists |-> TRUE,
                     success |-> TRUE,
                     timestamp |-> now],
                 log |-> heads \o <<"get_bill", "extract_bill", "summarize_bill", "gate">>
                            \o fp.log]

\* analyze_bill_task (tasks.py)
analyze_bill_task(bill_number, session, up, now) ==
    LET parsed == parse_bill_number(bill_number)
        bill_type == parsed[1]
        bill_num == parsed[2]
    IN  IF bill_type = None \/ bill_num = None
        THEN [result |-> [error |-> "Invalid bill format", success |-> FALSE],
              log |-> <<>>]
        ELSE
        LET formatted_bill == bill_type \o bill_num
            found == task_try_bill_url_patterns(bill_type, bill_num, session, up.bh)
            bill_url == found.ret[1]
            heads == HeadLog("head_bill", found.probed)
        IN  IF bill_url = None
            THEN [result |-> [bill_number |-> formatted_bill, session |-> session,
                              exists |-> FALSE, success |-> FALSE,
                              error |-> "Bill not found"],
                  log |-> heads]
            ELSE IF up.bg \in {"timeout", "error"}
            THEN [result |-> [error |-> "str(e)", success |-> FALSE],
                  log |-> Append(heads, "get_bill")]
            ELSE IF up.bg # "200"
            THEN [result |-> [error |-> "Failed to fetch bill", success |-> FALSE],
                  log |-> Append(heads, "get_bill")]
            ELSE IF up.bt = <<>>
            THEN [result |-> [error |-> "Could not extract bill text", success |-> FALSE],
                  log |-> heads \o <<"get_bill", "extract_bill">>]
            ELSE
            LET bill_text == up.bt
                relevant == should_fetch_fiscal_note(bill_text)
                fp == FiscalPart(up, relevant,
                          task_try_fiscal_note_patterns(bill_type, bill_num, session, up.fh),
                          "head_fiscal", "get_fiscal", "extract_fiscal", "summarize_fiscal")
                f == fp.f
            IN  [result |->
                    [bill_number |-> formatted_bill,
                     bill_type |-> bill_type,
                     session |-> session,
                     bill_url |-> bill_url,
                     fiscal_note_url |-> f.url,
                     bill_text |-> Take(bill_text, TEXT_EXCERPT),
                     fiscal_note_summary |-> f.summary,
                     total_fiscal_impact |-> f.impact,
                     has_fiscal_note |-> (f.text # None /\ f.text # <<>>),
                     exists |-> TRUE,
                     success |-> TRUE,
                     cache_hit |-> FALSE,
                     timestamp |-> now],
                 log |-> heads \o <<"get_bill", "extract_bill", "gate">> \o fp.log]


TypeHB == <<"H", "B">>

Num00150 == <<"0", "0", "1", "5", "0">>

ResolverInit ==
    /\ rs = NoResolve
    /\ ParseIdle
    /\ PipelineIdle
    /\ SysIdle
    /\ FnIdle
    /\ CacheOff

Resolved(kind, patterns, head, out) ==
    rs' = [kind |-> kind, head |-> head, probed |-> out.probed, ret |-> out.ret,
           raised |-> out.raised, want |-> patterns]

ResolveBill ==
    /\ rs.kind = "idle"
    /\ \E session \in Sessions, head \in [1..NumBillPatterns -> HeadOutcomes] :
          Resolved("bill", BillPatterns(TypeHB, Num00150, session), head,
                   try_bill_url_patterns(TypeHB, Num00150, session, head))
    /\ UNCHANGED <<parseVars, cacheVars, hist, run, sysVars, fn>>

ResolveFiscal ==
    /\ rs.kind = "idle"
    /\ \E session \in Sessions, head \in [1..NumFiscalPatterns -> HeadOutcomes] :
          Resolved("fiscal", FiscalPatterns(TypeHB, Num00150, session), head,
                   try_fiscal_note_patterns(TypeHB, Num00150, session, head))
    /\ UNCHANGED <<parseVars, cacheVars, hist, run, sysVars, fn>>

TaskResolveBill ==
    /\ rs.kind = "idle"
    /\ \E session \in Sessions, head \in [1..NumBillPatterns -> HeadOutcomes] :
          Resolved("task_bill", BillPatterns(TypeHB, Num00150, session), head,
                   task_try_bill_url_patterns(TypeHB, Num00150, session, head))
    /\ UNCHANGED <<parseVars, cacheVars, hist, run, sysVars, fn>>

TaskResolveFiscal ==
    /\ rs.kind = "idle"
    /\ \E session \in Sessions, head \in [1..NumFiscalPatterns -> HeadOutcomes] :
          Resolved("task_fiscal", FiscalPatterns(TypeHB, Num00150, session), head,
                   task_try_fiscal_note_patterns(TypeHB, Num00150, session, head))
    /\ UNCHANGED <<parseVars, cacheVars, hist, run, sysVars, fn>>

ResolverNext == ResolveBill \/ ResolveFiscal \/ TaskResolveBill \/ TaskResolveFiscal

ResolverSpec == ResolverInit /\ [][ResolverNext]_vars


(***************************************************************************)
(* CacheSpec: the three cache helpers called in any order on a few bills,  *)
(* sessions and results, while time passes and Redis goes down and up.     *)
(***************************************************************************)
RawHB1 == <<"H", "B", " ", "1">>

RawHb1 == <<"h", "b", "1">>

CacheBills == {RawHB1, RawHb1}

SampleResult(n) ==
    [bill_number |-> <<"H", "B", "0", "0", "0", "0", "1">>, session |-> Session89R,
     success |-> TRUE, exists |-> TRUE, timestamp |-> n]

SampleResults == {SampleResult(1), SampleResult(2)}

\* seconds that pass in one step of time: half the default time-to-live
TickSteps == {DefaultTTL \div 2}

CacheInit ==
    /\ ParseIdle
    /\ PipelineIdle
    /\ SysIdle
    /\ FnIdle
    /\ ResolverIdle
    /\ CACHE_ENABLED \in BOOLEAN
    /\ store = {}
    /\ last_success = None
    /\ storeUp = CACHE_ENABLED
    /\ hist = <<>>

\* the last two calls
Remember(call) == hist' = IF hist = <<>> THEN <<call>> ELSE <<hist[Len(hist)], call>>

Call(op, bill_number, session, data, ret) ==
    [op |-> op, bill |-> bill_number, session |-> session, data |-> data, ret |-> ret,
     up |-> CACHE_ENABLED /\ storeUp]

CachePut ==
    \E b \in CacheBills, session \in Sessions, data \in SampleResults :
        LET after == cache_analysis(b, session, data)
        IN  /\ store' = after.store
            /\ last_success' = after.last_success
            /\ Remember(Call("put", b, session, data, NoneDict))
            /\ UNCHANGED <<CACHE_ENABLED, storeUp, parseVars, resolverVars, run, sysVars, fn>>

CacheGet ==
    \E b \in CacheBills, session \in Sessions :
        /\ Remember(Call("get", b, session, NoneDict, get_cached_analysis(b, session)))
        /\ UNCHANGED <<cacheVars, parseVars, resolverVars, run, sysVars, fn>>

CacheInvalidate ==
    \E b \in CacheBills, session \in Sessions :
        /\ store' = invalidate_cache(b, session)
        /\ Remember(Call("invalidate", b, session, NoneDict, NoneDict))
        /\ UNCHANGED <<CACHE_ENABLED, last_success, storeUp, parseVars, resolverVars, run, sysVars, fn>>

\* time passes
Tick ==
    \E d \in TickSteps :
        /\ store # {}
        /\ store' = redis_expire(store, d)
        /\ Remember(Call("tick", <<>>, <<>>, NoneDict, NoneDict))
        /\ UNCHANGED <<CACHE_ENABLED, last_success, storeUp, parseVars, resolverVars, run, sysVars, fn>>

\* Redis stops answering, or answers again
StoreFlip ==
    /\ CACHE_ENABLED
    /\ storeUp' = ~storeUp
    /\ UNCHANGED <<CACHE_ENABLED, store, last_success, hist, parseVars, resolverVars, run, sysVars, fn>>

CacheNext == CachePut \/ CacheGet \/ CacheInvalidate \/ Tick \/ StoreFlip

CacheSpec == CacheInit /\ [][CacheNext]_vars


(***************************************************************************)
(* PipelineSpec: one run of the inline pipeline or of the background task  *)
(* on a bill identifier, against every combination of upstream answers.    *)
(* Answers a run cannot ask for (a GET when no candidate answered 200, the *)
(* fiscal side when the bill text was not extracted) are left "unused".    *)
(***************************************************************************)
RawHB150 == <<"H", "B", " ", "1", "5", "0">>

RawSB9999 == <<"S", "B", " ", "9", "9", "9", "9">>

RawXY12 == <<"X", "Y", "1", "2">>

PipeBills == {RawHB150, RawSB9999, RawXY12}

BillTextPlain == <<"A", "n", " ", "a", "c", "t">>

BillTextFiscal == <<"T", "h", "e", " ", "C", "O", "S", "T">>

FiscalNoteText == <<"F", "Y", "2", "0", "2", "6">>

BillSummary == <<"A", " ", "b", "i", "l", "l", ".">>

\* what the fiscal summarizer can return for a fiscal-note text: a parsed reply, a
\* parsed reply with an empty summary, a parsed object with other keys, or the
\* degradation default
AiReplies(fiscal_text) ==
    {[fiscal_note_summary |-> <<"C", "o", "s", "t", "s", ".">>, total_fiscal_impact |-> -5],
     [fiscal_note_summary |-> <<>>, total_fiscal_impact |-> 0],
     [summary |-> <<"C", "o", "s", "t", "s", ".">>],
     [fiscal_note_summary |-> Take(fiscal_text, TEXT_EXCERPT), total_fiscal_impact |-> 0]}

AnswersOk(head) == \E i \in 1..Len(head) : head[i] = "200"

UpNotFound(bh) ==
    [bh |-> bh, bg |-> "unused", bt |-> <<>>, sm |-> <<>>,
     fh |-> <<>>, fg |-> "unused", ft |-> <<>>, ai |-> NoneDict]

\* the fiscal-side answers of a run whose bill text passes the relevance gate
FiscalAnswers(outcomes) ==
    LET FH == [1..NumFiscalPatterns -> outcomes]
        tail(fh, fg, ft, ai) == [fh |-> fh, fg |-> fg, ft |-> ft, ai |-> ai]
    IN  {tail(fh, "unused", <<>>, NoneDict) : fh \in {h \in FH : ~AnswersOk(h)}}
        \cup {tail(fh, fg, <<>>, NoneDict) :
                 fh \in {h \in FH : AnswersOk(h)}, fg \in {"200", "404", "error"}}
        \cup {tail(fh, "200", FiscalNoteText, ai) :
                 fh \in {h \in FH : AnswersOk(h)}, ai \in AiReplies(FiscalNoteText)}

UpstreamAnswers(outcomes) ==
    LET BH == [1..NumBillPatterns -> outcomes]
        found == {h \in BH : AnswersOk(h)}
    IN  {UpNotFound(bh) : bh \in BH \ found}
        \cup {[UpNotFound(bh) EXCEPT !.bg = bg] :
                 bh \in found, bg \in {"200", "404", "500", "timeout", "error"}}
        \cup {[UpNotFound(bh) EXCEPT !.bg = "200", !.bt = BillTextPlain, !.sm = BillSummary] :
                 bh \in found}
        \cup {[UpNotFound(bh) EXCEPT !.bg = "200", !.bt = BillTextFiscal, !.sm = BillSummary,
                                     !.fh = t.fh, !.fg = t.fg, !.ft = t.ft, !.ai = t.ai] :
                 bh \in found, t \in FiscalAnswers(outcomes)}

PipeOutcomes == {"200", "404", "error"}

PipelineInit ==
    /\ run = NoRun
    /\ SysIdle
    /\ FnIdle
    /\ ParseIdle
    /\ ResolverIdle
    /\ CacheOff

\* perform_bill_analysis(bill, session)
RunInline ==
    /\ run.who = "idle"
    /\ \E b \in PipeBills, up \in UpstreamAnswers(PipeOutcomes) :
          run' = [who |-> "inline", bill |-> b, session |-> Session89R, up |-> up,
                  out |-> perform_bill_analysis(b, Session89R, up, 1)]
    /\ UNCHANGED <<parseVars, resolverVars, cacheVars, hist, sysVars, fn>>

\* analyze_bill_task(bill, session), run by the worker
RunTask ==
    /\ run.who = "idle"
    /\ \E b \in PipeBills, up \in UpstreamAnswers(PipeOutcomes) :
          run' = [who |-> "task", bill |-> b, session |-> Session89R, up |-> up,
                  out |-> analyze_bill_task(b, Session89R, up, 1)]
    /\ UNCHANGED <<parseVars, resolverVars, cacheVars, hist, sysVars, fn>>

PipelineNext == RunInline \/ RunTask

PipelineSpec == PipelineInit /\ [][PipelineNext]_vars


(***************************************************************************)
(* Text functions: the PDF text normalization, the relevance gate (above)  *)
(* and the fiscal summarizer, each in its app.py and its tasks.py copy.    *)
(***************************************************************************)
\* re.sub(r"[ \t]+", " ", txt)
RECURSIVE re_sub_blanks(_)
re_sub_blanks(txt) ==
    IF txt = <<>> THEN <<>>
    ELSE IF txt[1] \in {" ", "\t"}
         THEN <<" ">> \o re_sub_blanks(SubSeq(txt, RunEnd(txt, 1, {" ", "\t"}), Len(txt)))
         ELSE <<txt[1]>> \o re_sub_blanks(Tail(txt))

\* a mutant: a run of newlines loses one newline
RECURSIVE re_sub_newlines_drop_one(_)
re_sub_newlines_drop_one(txt) ==
    IF txt = <<>> THEN <<>>
    ELSE IF txt[1] = "\n"
         THEN LET e == RunEnd(txt, 1, {"\n"})
              IN  (IF e - 1 >= 3 THEN SubSeq(txt, 1, e - 2) ELSE SubSeq(txt, 1, e - 1))
                  \o re_sub_newlines_drop_one(SubSeq(txt, e, Len(txt)))
         ELSE <<txt[1]>> \o re_sub_newlines_drop_one(Tail(txt))

\* re.sub(r"\n{3,}", "\n\n", txt)
RECURSIVE re_sub_newlines(_)
re_sub_newlines(txt) ==
    IF txt = <<>> THEN <<>>
    ELSE IF txt[1] = "\n"
         THEN LET e == RunEnd(txt, 1, {"\n"})
              IN  (IF e - 1 >= 3 THEN <<"\n", "\n">> ELSE SubSeq(txt, 1, e - 1))
                  \o re_sub_newlines(SubSeq(txt, e, Len(txt)))
         ELSE <<txt[1]>> \o re_sub_newlines(Tail(txt))

\* extract_text_from_pdf_bytes (app.py): pdf.ok is whether pdfminer returns, pdf.txt the
\* text it returns; an exception gives ""
extract_text_from_pdf_bytes(pdf) ==
    IF ~pdf.ok THEN <<>>
    ELSE str_strip(re_sub_newlines(re_sub_blanks(pdf.txt)))

\* extract_text_from_pdf_bytes (tasks.py)
task_extract_text_from_pdf_bytes(pdf) ==
    IF ~pdf.ok THEN <<>>
    ELSE str_strip(re_sub_newlines(re_sub_blanks(pdf.txt)))

\* should_fetch_fiscal_note (tasks.py)
task_should_fetch_fiscal_note(bill_text) ==
    \E k \in 1..Len(fiscal_keywords) : IsSubstring(fiscal_keywords[k], str_lower(bill_text))

(***************************************************************************)
(* The summarizer.  The backend's message content is a sequence of lines,  *)
(* a line a sequence of tokens: a code fence, the word json, other text,   *)
(* or a JSON value.  A JSON object is a record of tagged members, [n |-> ] *)
(* a number and [s |-> ] a string.                                         *)
(***************************************************************************)
Fence == [t |-> "fence"]

JsonWord == [t |-> "json"]

Junk == [t |-> "junk"]

JsonValue(v) == [t |-> "value", v |-> v]

JsonObject(d) == [kind |-> "object", d |-> d]

JsonArray == [kind |-> "array", d |-> NoneDict]

\* response_text.startswith(word)
StartsWith(lines, word) == lines # <<>> /\ lines[1] # <<>> /\ lines[1][1] = word

\* response_text[4:].strip() on a text that starts with json
DropJsonWord(lines) ==
    IF Len(lines[1]) = 1 THEN Tail(lines) ELSE <<Tail(lines[1])>> \o Tail(lines)

\* "Clean markdown if present"
CleanMarkdown(lines) ==
    IF ~StartsWith(lines, Fence) THEN lines
    ELSE LET inner == IF Len(lines) > 2 THEN SubSeq(lines, 2, Len(lines) - 1) ELSE lines
         IN  IF StartsWith(inner, JsonWord) THEN DropJsonWord(inner) ELSE inner

RECURSIVE Tokens(_)
Tokens(lines) == IF lines = <<>> THEN <<>> ELSE lines[1] \o Tokens(Tail(lines))

\* json.loads(response_text): the value, or JSONDecodeError
json_loads_reply(lines) ==
    LET toks == Tokens(lines)
    IN  IF Len(toks) = 1 /\ toks[1].t = "value"
        THEN [ok |-> TRUE, v |-> toks[1].v]
        ELSE [ok |-> FALSE, v |-> JsonArray]

\* the Python dict of a JSON object
PyDict(d) == [k \in DOMAIN d |-> IF "n" \in DOMAIN d[k] THEN d[k].n ELSE d[k].s]

\* f'{result.get("total_fiscal_impact", 0):,.2f}' formats numbers only
FormatsAsNumber(d) ==
    "total_fiscal_impact" \notin DOMAIN d \/ "n" \in DOMAIN d.total_fiscal_impact

\* a mutant: a failing backend call propagates
SummarizeRaises(fiscal_note_text, ai) ==
    [ret |-> NoneDict, raised |-> TRUE]

\* the body both summarizers share: the returned dict, and whether the call raised
Summarize(fiscal_note_text, ai) ==
    LET default == [fiscal_note_summary |-> Take(fiscal_note_text, TEXT_EXCERPT),
                    total_fiscal_impact |-> 0]
        parsed == json_loads_reply(CleanMarkdown(ai.lines))
    IN  [raised |-> FALSE,
         ret |-> IF fiscal_note_text = <<>>
                 THEN [fiscal_note_summary |-> <<>>, total_fiscal_impact |-> 0]
                 ELSE IF ai.state # "content" THEN default
                 ELSE IF ~parsed.ok THEN default
                 ELSE IF parsed.v.kind # "object" THEN default
                 ELSE IF ~FormatsAsNumber(parsed.v.d) THEN default
                 ELSE PyDict(parsed.v.d)]

\* extract_fiscal_data_with_claude (app.py)
extract_fiscal_data_with_claude(fiscal_note_text, ai) == Summarize(fiscal_note_text, ai)

\* extract_fiscal_summary_with_ai (tasks.py)
extract_fiscal_summary_with_ai(fiscal_note_text, ai) == Summarize(fiscal_note_text, ai)

(***************************************************************************)
(* TextSpec: one call of a text function on an input of a bounded set.     *)
(***************************************************************************)
\* a mutant: the tiers take their upper edge in
text_limit_inclusive(length) ==
    IF length <= 50000 THEN (IF length < 10000 THEN length ELSE 10000)
    ELSE IF length <= 100000 THEN 8000
    ELSE IF length <= 150000 THEN 6000
    ELSE 4000

\* get_appropriate_text_limit (app.py), on length = len(text), all it reads of the text
get_appropriate_text_limit(length) ==
    IF length < 50000 THEN (IF length < 10000 THEN length ELSE 10000)
    ELSE IF length < 100000 THEN 8000
    ELSE IF length < 150000 THEN 6000
    ELSE 4000

\* get_appropriate_text_limit (tasks.py)
task_get_appropriate_text_limit(length) ==
    IF length < 50000 THEN (IF length < 10000 THEN length ELSE 10000)
    ELSE IF length < 100000 THEN 8000
    ELSE IF length < 150000 THEN 6000
    ELSE 4000

MaxText == 6

\* how far around each edge of the tiers the lengths are taken
MaxSlack == 40

\* text lengths: around 0, 10000 and the three edges of the tiers
TextLengths(slack) ==
    {n \in {e + d : e \in {0, 10000, 50000, 100000, 150000}, d \in (0 - slack)..slack} :
        n >= 0}

TextChars == {" ", "\t", "\n", "\f", "a"}

\* the PDFs: pdfminer returns a text of at most n characters, or raises
PdfInputs(n) ==
    {[ok |-> TRUE, txt |-> txt] : txt \in SeqsUpTo(TextChars, n)}
    \cup {[ok |-> FALSE, txt |-> <<>>]}

\* a text of n characters
TextOfLen(n) == [i \in 1..n |-> IF i > TEXT_EXCERPT THEN "z" ELSE "a"]

FiscalTexts ==
    {TextOfLen(n) : n \in {0, 1, TEXT_EXCERPT - 1, TEXT_EXCERPT, TEXT_EXCERPT + 1}}

Backend(state, class, lines) == [state |-> state, class |-> class, lines |-> lines]

ObjGood ==
    JsonObject([fiscal_note_summary |-> [s |-> <<"C", "o", "s", "t", "s", ".">>],
                total_fiscal_impact |-> [n |-> -5]])

ObjTextTotal ==
    JsonObject([fiscal_note_summary |-> [s |-> <<"C", "o", "s", "t", "s", ".">>],
                total_fiscal_impact |-> [s |-> <<"n", "/", "a">>]])

ObjOtherKeys == JsonObject([summary |-> [s |-> <<"C", "o", "s", "t", "s", ".">>]])

\* the backend's behaviours, each with the class it falls in: "good" (a reply of the
\* expected structure), or a failure: "unconfigured", "unreachable", "status"
\* (a non-200 answer) and "malformed" (a reply that is not the expected structure)
Backends ==
    {Backend("unconfigured", "unconfigured", <<>>),
     Backend("unreachable", "unreachable", <<>>),
     Backend("status", "status", <<>>),
     Backend("bad_body", "malformed", <<>>),
     Backend("no_choices", "malformed", <<>>),
     Backend("content", "good", << <<JsonValue(ObjGood)>> >>),
     Backend("content", "good", << <<Fence>>, <<JsonValue(ObjGood)>>, <<Fence>> >>),
     Backend("content", "good", << <<Fence, JsonWord>>, <<JsonValue(ObjGood)>>, <<Fence>> >>),
     Backend("content", "good",
             << <<Fence>>, <<JsonWord>>, <<JsonValue(ObjGood)>>, <<Fence>> >>),
     Backend("content", "malformed", << <<Junk>> >>),
     Backend("content", "malformed", << <<Junk>>, <<JsonValue(ObjGood)>> >>),
     Backend("content", "malformed", << <<Fence, JsonValue(ObjGood)>>, <<Fence>> >>),
     Backend("content", "malformed", << <<JsonWord, JsonValue(ObjGood)>> >>),
     Backend("content", "malformed", << <<JsonValue(JsonArray)>> >>),
     Backend("content", "malformed", << <<JsonValue(ObjTextTotal)>> >>),
     Backend("content", "malformed", << <<JsonValue(ObjOtherKeys)>> >>)}

GatePrefixes == {<<>>, <<"A", "n", " ">>, <<"x">>}

GateSuffixes == {<<>>, <<" ", "s">>, <<".">>}

GateWords ==
    {fiscal_keywords[k] : k \in 1..Len(fiscal_keywords)}
    \cup {str_upper(fiscal_keywords[k]) : k \in 1..Len(fiscal_keywords)}
    \cup {<<"F", "i", "s", "c", "a", "l", " ", "I", "m", "p", "a", "c", "t", " ", "S", "t", "a", "t", "e", "m", "e", "n", "t">>,
          <<"f", "i", "s", "c", "a", "l", " ", " ", "i", "m", "p", "a", "c", "t">>, <<"F", "i", "s", "c", "a", "l">>, <<"I", "M", "P", "A", "C", "T">>, <<"c", "o", "s", " ", "t">>, <<"a", "c", "t">>,
          <<"g", "r", "a", "n">>, <<"B", "u", "d", "g", "e">>, <<"r", "e", "v", "e", "n", "u">>, <<>>}

TextInit ==
    /\ fn = NoFn
    /\ ParseIdle
    /\ ResolverIdle
    /\ PipelineIdle
    /\ SysIdle
    /\ CacheOff

Called(op, arg, ai, ret, raised) ==
    fn' = [op |-> op, arg |-> arg, ai |-> ai, ret |-> ret, raised |-> raised]

textFrame == <<parseVars, resolverVars, cacheVars, hist, run, sysVars>>

ExtractText ==
    /\ fn.op = "none"
    /\ \E pdf \in PdfInputs(MaxText) :
          Called("extract_text", pdf.txt, [ok |-> pdf.ok],
                 extract_text_from_pdf_bytes(pdf), FALSE)
    /\ UNCHANGED textFrame

TaskExtractText ==
    /\ fn.op = "none"
    /\ \E pdf \in PdfInputs(MaxText) :
          Called("task_extract_text", pdf.txt, [ok |-> pdf.ok],
                 task_extract_text_from_pdf_bytes(pdf), FALSE)
    /\ UNCHANGED textFrame

Gate ==
    /\ fn.op = "none"
    /\ \E p \in GatePrefixes, w \in GateWords, q \in GateSuffixes :
          Called("gate", p \o w \o q, NoneDict,
                 [value |-> should_fetch_fiscal_note(p \o w \o q)], FALSE)
    /\ UNCHANGED textFrame

TaskGate ==
    /\ fn.op = "none"
    /\ \E p \in GatePrefixes, w \in GateWords, q \in GateSuffixes :
          Called("task_gate", p \o w \o q, NoneDict,
                 [value |-> task_should_fetch_fiscal_note(p \o w \o q)], FALSE)
    /\ UNCHANGED textFrame

\* get_appropriate_text_limit(text) on a text of n characters
TextLimit ==
    /\ fn.op = "none"
    /\ \E n \in TextLengths(MaxSlack) :
          Called("text_limit", <<n>>, NoneDict,
                 [value |-> get_appropriate_text_limit(n)], FALSE)
    /\ UNCHANGED textFrame

TaskTextLimit ==
    /\ fn.op = "none"
    /\ \E n \in TextLengths(MaxSlack) :
          Called("task_text_limit", <<n>>, NoneDict,
                 [value |-> task_get_appropriate_text_limit(n)], FALSE)
    /\ UNCHANGED textFrame

SummarizeFiscal ==
    /\ fn.op = "none"
    /\ \E text \in FiscalTexts, ai \in Backends :
          LET out == extract_fiscal_data_with_claude(text, ai)
          IN  Called("summarize", text, ai, out.ret, out.raised)
    /\ UNCHANGED textFrame

TaskSummarizeFiscal ==
    /\ fn.op = "none"
    /\ \E text \in FiscalTexts, ai \in Backends :
          LET out == extract_fiscal_summary_with_ai(text, ai)
          IN  Called("task_summarize", text, ai, out.ret, out.raised)
    /\ UNCHANGED textFrame

TextNext ==
    \/ ExtractText
    \/ TaskExtractText
    \/ Gate
    \/ TaskGate
    \/ TextLimit
    \/ TaskTextLimit
    \/ SummarizeFiscal
    \/ TaskSummarizeFiscal

TextSpec == TextInit /\ [][TextNext]_vars


(***************************************************************************)
(* Spec: the web service.  Requests to /analyzeBill, /analyzeBillForAgentforce, *)
(* /cache/invalidate and /job/<id> are served concurrently; a request that *)
(* has to run the pipeline inline waits in reqs between its cache check and *)
(* its pipeline run.  One RQ worker takes jobs from the queue and runs     *)
(* analyze_bill_task.  Cache entries age, and Redis may stop answering.    *)
(***************************************************************************)
CURRENT_SESSION == Session89R

huge_bills ==
    {<<"H", "B", "0", "0", "0", "0", "2">>,
     <<"S", "B", "0", "0", "0", "0", "1">>,
     <<"H", "B", "0", "0", "0", "0", "1">>}

\* should_async with the oversized list ignored
should_async_flag_only(use_async, formatted_bill) == use_async

\* should_async = use_async or (formatted_bill in huge_bills)
should_async(use_async, formatted_bill) == use_async \/ formatted_bill \in huge_bills

\* pipeline runs (inline and by the worker) in one behaviour
MaxRuns == 2

SysBills == {RawHB1, RawHB150, RawXY12, <<>>}

\* the /analyzeBill payloads: an identifier of the oversized list, an ordinary one with
\* and without use_async, an invalid one and a missing one
AnalyzeBillPayloads ==
    {[bill_number |-> b, force_refresh |-> f, use_async |-> FALSE] :
        b \in {RawHB1, RawHB150}, f \in BOOLEAN}
    \cup {[bill_number |-> RawHB150, force_refresh |-> f, use_async |-> TRUE] :
             f \in BOOLEAN}
    \cup {[bill_number |-> b, force_refresh |-> FALSE, use_async |-> FALSE] :
             b \in {RawXY12, <<>>}}

\* upstream answers of one pipeline run: a bill with a fiscal note, no candidate
\* answering, and a candidate whose GET fails
ScenFiscal ==
    [UpNotFound(<<"200", "404", "404", "404">>)
        EXCEPT !.bg = "200", !.bt = BillTextFiscal, !.sm = BillSummary,
               !.fh = <<"error", "200", "404">>, !.fg = "200", !.ft = FiscalNoteText,
               !.ai = [fiscal_note_summary |-> <<"C", "o", "s", "t", "s", ".">>,
                       total_fiscal_impact |-> -5]]

ScenMissing == UpNotFound(<<"404", "404", "error", "404">>)

ScenFetchFail == [UpNotFound(<<"200", "404", "404", "404">>) EXCEPT !.bg = "500"]

Scenarios == {ScenFiscal, ScenMissing, ScenFetchFail}

\* d[k] = v
DictSet(d, k, v) == [x \in DOMAIN d \cup {k} |-> IF x = k THEN v ELSE d[x]]

\* cached_result and cached_result.get('formatted_response'): a stored formatted
\* response is never the empty text, so the test is whether the key is there
HasFormattedResponse(d) == d # NoneDict /\ "formatted_response" \in DOMAIN d

Req(ep, bill_number, force_refresh, use_async, had) ==
    [ep |-> ep, bill |-> bill_number, force_refresh |-> force_refresh,
     use_async |-> use_async, had |-> had]

\* the response of the handler of request r: status code, JSON body, the upstream
\* calls the handler made, and the cache entry its write replaced (None if it wrote
\* none or the key was free)
ReplyOver(r, code, body, log, over) ==
    last' = [ep |-> r.ep, bill |-> r.bill, force_refresh |-> r.force_refresh,
             use_async |-> r.use_async, had |-> r.had, code |-> code, body |-> body,
             log |-> log, over |-> over]

\* a response of a handler that wrote no cache entry
Reply(r, code, body, log) == ReplyOver(r, code, body, log, NoneDict)

\* what the key of (bill_number, session) holds when a handler is about to write it
Overwritten(bill_number, session) ==
    get_cached_analysis_on(CACHE_ENABLED, storeUp, store, bill_number, session)

Job(bill_number, session, status, result) ==
    [bill |-> bill_number, session |-> session, status |-> status, result |-> result]

\* the jobs that have not run the task to its end, each holding one pipeline run
Unfinished == {id \in 1..Len(jobs) : jobs[id].status # "finished"}

\* a request or job is admitted only while a pipeline run is left for it
RunLeft == clock + BagCardinality(reqs) + Cardinality(Unfinished) < MaxRuns

Init ==
    /\ ParseIdle
    /\ ResolverIdle
    /\ PipelineIdle
    /\ FnIdle
    /\ hist = <<>>
    /\ CACHE_ENABLED \in BOOLEAN
    /\ storeUp = CACHE_ENABLED
    /\ store = {}
    /\ last_success = None
    /\ job_queue \in {[on |-> on, ids |-> <<>>] : on \in {CACHE_ENABLED, FALSE}}
    /\ jobs = <<>>
    /\ reqs = EmptyBag
    /\ last = NoResponse
    /\ clock = 0

idleVars == <<parseVars, resolverVars, hist, run, fn>>

\* a mutant: the cache is read whatever force_refresh says
CacheCheckIgnoresRefresh(force_refresh, bill_number) ==
    get_cached_analysis(bill_number, CURRENT_SESSION)

\* the cache check of analyze_bill: skipped under force_refresh
CacheCheck(force_refresh, bill_number) ==
    IF force_refresh THEN NoneDict ELSE get_cached_analysis(bill_number, CURRENT_SESSION)

\* a mutant: the enqueue is taken to succeed whatever the state of the queue
EnqueueAlwaysWorks == TRUE

\* `and job_queue`, and job_queue.enqueue does not raise: Redis takes the job
EnqueueWorks == job_queue.on /\ storeUp

\* analyze_bill up to the dispatch: validation, cache check, enqueue
AnalyzeBill ==
    \E payload \in AnalyzeBillPayloads :
        LET b == payload.bill_number
            force_refresh == payload.force_refresh
            use_async == payload.use_async
            parsed == parse_bill_number(b)
            formatted_bill == parsed[1] \o parsed[2]
            cached == CacheCheck(force_refresh, b)
            r == Req("analyzeBill", b, force_refresh, use_async, cached)
            job_id == Len(jobs) + 1
        IN  /\ UNCHANGED <<idleVars, cacheVars, clock>>
            /\ IF b = <<>>
               THEN /\ Reply(r, 400, [error |-> "bill_number is required",
                                      error_code |-> "MISSING_BILL_NUMBER",
                                      success |-> FALSE], <<>>)
                    /\ UNCHANGED <<job_queue, jobs, reqs>>
               ELSE IF parsed[1] = None \/ parsed[2] = None
               THEN /\ Reply(r, 400, [error |-> "Invalid bill format. Use format like 'HB 150' or 'SB 2'",
                                      error_code |-> "INVALID_BILL_FORMAT",
                                      success |-> FALSE], <<>>)
                    /\ UNCHANGED <<job_queue, jobs, reqs>>
               ELSE IF cached # NoneDict
               THEN /\ Reply(r, 200, DictSet(cached, "cache_hit", TRUE), <<>>)
                    /\ UNCHANGED <<job_queue, jobs, reqs>>
               ELSE IF should_async(use_async, formatted_bill) /\ EnqueueWorks
               THEN /\ RunLeft
                    /\ jobs' = Append(jobs, Job(b, CURRENT_SESSION, "queued", NoneDict))
                    /\ job_queue' = [job_queue EXCEPT !.ids = Append(@, job_id)]
                    /\ Reply(r, 202, [job_id |-> job_id, status |-> "processing",
                                      bill_number |-> formatted_bill, success |-> TRUE], <<>>)
                    /\ UNCHANGED reqs
               ELSE /\ RunLeft
                    /\ reqs' = reqs (+) SetToBag({r})
                    /\ UNCHANGED <<job_queue, jobs, last>>

\* a mutant: no result counts as failed
ResultFailedNever(result) == FALSE

\* `if not result.get('success')` of analyze_bill
ResultFailed(result) == ~DictGet(result, "success", FALSE)

\* analyze_bill from "Perform analysis" on: the inline run, the cache write, the reply
AnalyzeBillRun ==
    \E r \in BagToSet(reqs), up \in Scenarios :
        LET out == perform_bill_analysis(r.bill, CURRENT_SESSION, up, clock + 1)
            result == out.result
            fresh == DictSet(result, "cache_hit", FALSE)
            after == cache_analysis(r.bill, CURRENT_SESSION, fresh)
        IN  /\ r.ep = "analyzeBill"
            /\ reqs' = reqs (-) SetToBag({r})
            /\ clock' = clock + 1
            /\ IF ResultFailed(result)
               THEN /\ Reply(r, IF Has(result, "error_code", "BILL_NOT_FOUND")
                                THEN 404 ELSE 500, result, out.log)
                    /\ UNCHANGED cacheVars
               ELSE /\ store' = after.store
                    /\ last_success' = after.last_success
                    /\ ReplyOver(r, 200, fresh, out.log, Overwritten(r.bill, CURRENT_SESSION))
                    /\ UNCHANGED <<CACHE_ENABLED, storeUp>>
            /\ UNCHANGED <<idleVars, job_queue, jobs>>

\* analyze_bill_for_agentforce up to the cache check
AnalyzeBillForAgentforce ==
    \E b \in SysBills :
        LET cached == get_cached_analysis(b, CURRENT_SESSION)
            r == Req("analyzeBillForAgentforce", b, FALSE, FALSE, cached)
        IN  /\ UNCHANGED <<idleVars, cacheVars, clock, job_queue, jobs>>
            /\ IF b = <<>>
               THEN /\ Reply(r, 400, [response |-> "I need a bill number to analyze.",
                                      success |-> FALSE], <<>>)
                    /\ UNCHANGED reqs
               ELSE IF HasFormattedResponse(cached)
               THEN /\ Reply(r, 200, [response |-> cached.formatted_response,
                                      success |-> TRUE], <<>>)
                    /\ UNCHANGED reqs
               ELSE /\ RunLeft
                    /\ reqs' = reqs (+) SetToBag({r})
                    /\ UNCHANGED last

\* analyze_bill_for_agentforce from "Perform fresh analysis" on
AgentforceRun ==
    \E r \in BagToSet(reqs), up \in Scenarios :
        LET out == perform_bill_analysis(r.bill, CURRENT_SESSION, up, clock + 1)
            result == out.result
            after == cache_analysis(r.bill, CURRENT_SESSION, result)
        IN  /\ r.ep = "analyzeBillForAgentforce"
            /\ reqs' = reqs (-) SetToBag({r})
            /\ clock' = clock + 1
            /\ IF ~result.success
               THEN /\ Reply(r, IF Has(result, "error_code", "INVALID_BILL_FORMAT")
                                THEN 400 ELSE 500,
                             [response |-> [issue |-> r.bill,
                                            error |-> DictGet(result, "error",
                                                              "Unknown error occurred")],
                              success |-> FALSE], out.log)
                    /\ UNCHANGED cacheVars
               ELSE /\ store' = after.store
                    /\ last_success' = after.last_success
                    /\ ReplyOver(r, 200, [response |-> result.formatted_response,
                                          success |-> TRUE], out.log,
                                 Overwritten(r.bill, CURRENT_SESSION))
                    /\ UNCHANGED <<CACHE_ENABLED, storeUp>>
            /\ UNCHANGED <<idleVars, job_queue, jobs>>

\* cache_invalidate
CacheInvalidateRequest ==
    \E b \in SysBills :
        LET r == Req("cache_invalidate", b, FALSE, FALSE, NoneDict)
        IN  /\ IF b = <<>>
               THEN /\ Reply(r, 400, [error |-> "bill_number is required"], <<>>)
                    /\ UNCHANGED store
               ELSE /\ store' = invalidate_cache(b, CURRENT_SESSION)
                    /\ Reply(r, 200, [success |-> TRUE, message |-> b], <<>>)
            /\ UNCHANGED <<idleVars, CACHE_ENABLED, last_success, storeUp,
                           job_queue, jobs, reqs, clock>>

\* get_job_status(job_id); Job.fetch raises for an id RQ does not hold and when Redis
\* does not answer
GetJobStatus ==
    \E job_id \in 1..MaxRuns :
        LET r == Req("job", <<job_id>>, FALSE, FALSE, NoneDict)
            job == jobs[job_id]
            result == job.result
            after == cache_analysis(result.bill_number, result.session, result)
        IN  /\ UNCHANGED <<idleVars, CACHE_ENABLED, storeUp, job_queue, jobs, reqs, clock>>
            /\ IF ~CACHE_ENABLED \/ ~job_queue.on
               THEN /\ Reply(r, 503, [error |-> "Jobs not available"], <<>>)
                    /\ UNCHANGED <<store, last_success>>
               ELSE IF ~storeUp \/ job_id > Len(jobs)
               THEN /\ Reply(r, 404, [status |-> "error", error |-> "str(e)"], <<>>)
                    /\ UNCHANGED <<store, last_success>>
               ELSE IF job.status = "finished"
               THEN IF result.success
                    THEN /\ store' = after.store
                         /\ last_success' = after.last_success
                         /\ ReplyOver(r, 200, [status |-> "completed", result |-> result],
                                      <<>>, Overwritten(result.bill_number, result.session))
                    ELSE /\ Reply(r, 200, [status |-> "completed", result |-> result], <<>>)
                         /\ UNCHANGED <<store, last_success>>
               ELSE IF job.status = "failed"
               THEN /\ Reply(r, 200, [status |-> "failed", error |-> "str(job.exc_info)"],
                             <<>>)
                    /\ UNCHANGED <<store, last_success>>
               ELSE /\ Reply(r, 200, [status |-> "processing", job_id |-> job_id], <<>>)
                    /\ UNCHANGED <<store, last_success>>

\* worker.work(): the worker takes the oldest waiting job
WorkerTake ==
    /\ storeUp
    /\ job_queue.ids # <<>>
    /\ \A id \in 1..Len(jobs) : jobs[id].status # "started"
    /\ jobs' = [jobs EXCEPT ![Head(job_queue.ids)].status = "started"]
    /\ job_queue' = [job_queue EXCEPT !.ids = Tail(@)]
    /\ UNCHANGED <<idleVars, cacheVars, reqs, last, clock>>

\* the job's call of analyze_bill_task returns
WorkerDone ==
    \E id \in 1..Len(jobs), up \in Scenarios :
        LET out == analyze_bill_task(jobs[id].bill, jobs[id].session, up, clock + 1)
        IN  /\ jobs[id].status = "started"
            /\ jobs' = [jobs EXCEPT ![id].status = "finished", ![id].result = out.result]
            /\ clock' = clock + 1
            /\ UNCHANGED <<idleVars, cacheVars, job_queue, reqs, last>>

\* WorkerFail with the failed job put back on the queue
WorkerFailRetries ==
    \E id \in 1..Len(jobs) :
        /\ jobs[id].status = "started"
        /\ jobs' = [jobs EXCEPT ![id].status = "queued"]
        /\ job_queue' = [job_queue EXCEPT !.ids = Append(@, id)]
        /\ UNCHANGED <<idleVars, cacheVars, reqs, last, clock>>

\* the job ends without a result: the work horse is killed or job_timeout passes
WorkerFail ==
    \E id \in 1..Len(jobs) :
        /\ jobs[id].status = "started"
        /\ jobs' = [jobs EXCEPT ![id].status = "failed"]
        /\ UNCHANGED <<idleVars, cacheVars, job_queue, reqs, last, clock>>

\* time passes: the cache entries age and expire
TimePasses ==
    \E d \in TickSteps :
        /\ store # {}
        /\ store' = redis_expire(store, d)
        /\ UNCHANGED <<idleVars, CACHE_ENABLED, last_success, storeUp, sysVars>>

Next ==
    \/ AnalyzeBill
    \/ AnalyzeBillRun
    \/ AnalyzeBillForAgentforce
    \/ AgentforceRun
    \/ CacheInvalidateRequest
    \/ GetJobStatus
    \/ WorkerTake
    \/ WorkerDone
    \/ WorkerFail
    \/ TimePasses
    \/ StoreFlip

Spec == Init /\ [][Next]_vars


(***************************************************************************)
(* The identifier grammar of the specification, read off the raw input:    *)
(* upper-cased and trimmed, then a run of letters, a run of whitespace and *)
(* a run of digits.                                                        *)
(***************************************************************************)
LetterChars == {UpperLetters[i] : i \in 1..Len(UpperLetters)}

SpecTypes == {<<"H", "B">>, <<"S", "B">>, <<"H", "J", "R">>, <<"S", "J", "R">>}

IdShape(bill_number) ==
    LET s == str_strip(str_upper(bill_number))
        a == RunEnd(s, 1, LetterChars)
        p == RunEnd(s, a, WhitespaceChars)
        q == RunEnd(s, p, DigitChars)
    IN  [letters |-> SubSeq(s, 1, a - 1),
         digits  |-> SubSeq(s, p, q - 1),
         whole   |-> a > 1 /\ q > p /\ q = Len(s) + 1]

\* TYPE, optional whitespace, digits, and nothing else, TYPE one of the four codes
SpecValid(bill_number) ==
    IdShape(bill_number).whole /\ IdShape(bill_number).letters \in SpecTypes

Zeros(n) == [i \in 1..n |-> "0"]

\* the digits padded on the left with zeros to five characters
SpecPad(digits) ==
    IF Len(digits) >= 5 THEN digits ELSE Zeros(5 - Len(digits)) \o digits

Parsed == pout.op = "parse"

ParseOk == Parsed /\ pout.val # <<None, None>>

Keyed == pout.op = "key"

\* C3: every valid identifier (type HB, SB, HJR or SJR, at most five digits), in any
\* case and with any whitespace, gets the key
\* "bill_analysis:{session}:{TYPE}{5-digit zero-padded number}".
C3_KeyCanonical ==
    (Keyed /\ SpecValid(raw) /\ Len(IdShape(raw).digits) <= 5)
        => pout.val[1] = KeyPrefix \o pout.session \o <<":">>
                            \o IdShape(raw).letters \o SpecPad(IdShape(raw).digits)

\* C6: every valid identifier, in any case and with any whitespace, parses to the
\* canonical pair (TYPE, zero-padded number).
C6_ParseCanonical ==
    (Parsed /\ SpecValid(raw))
        => pout.val = <<IdShape(raw).letters, SpecPad(IdShape(raw).digits)>>

\* C7: parse_bill_number succeeds only when the entire upper-cased, trimmed input is
\* a type code, optional whitespace and digits; anything else is (None, None).
C7_RejectedWhole == ParseOk => IdShape(raw).whole

\* C8: an input of the form letters, optional whitespace, digits parses, to its own
\* type code, exactly when that code is HB, SB, HJR or SJR.
C8_AcceptedTypes ==
    (Parsed /\ IdShape(raw).whole)
        => IF IdShape(raw).letters \in SpecTypes
           THEN pout.val[1] = IdShape(raw).letters
           ELSE pout.val = <<None, None>>

\* C9 as stated: every successfully parsed number has exactly 5 digits.
C9_ExactlyFiveDigits ==
    ParseOk => /\ Len(pout.val[2]) = 5
               /\ \A i \in 1..Len(pout.val[2]) : pout.val[2][i] \in DigitChars

\* C9 as amended: the parsed number is the input's n digits padded on the left with
\* zeros to max(5, n) characters; it has exactly 5 digits when n <= 5.
C9_PaddedToAtLeastFive ==
    ParseOk =>
        LET d == IdShape(raw).digits
            n == Len(d)
            num == pout.val[2]
        IN  /\ n >= 1
            /\ Len(num) = (IF n >= 5 THEN n ELSE 5)
            /\ num = Zeros(Len(num) - n) \o d
            /\ \A i \in 1..Len(num) : num[i] \in DigitChars

\* a two-digit input has been padded to five digits
C9_Witness ==
    ParseOk /\ Len(IdShape(raw).digits) = 2 /\ Len(pout.val[2]) = 5

(***************************************************************************)
(* Resolver claims                                                         *)
(***************************************************************************)
ResolverCalled == rs.kind # "idle"

\* the candidates that would answer 200
OkCandidates == {i \in 1..Len(rs.head) : rs.head[i] = "200"}

FirstOk == CHOOSE i \in OkCandidates : \A j \in OkCandidates : i <= j

\* C4: the candidates are probed in list order, the first one answering 200 is
\* returned at once and no candidate after it is probed; bill and fiscal resolver.
C4_FirstResponsiveWins ==
    (ResolverCalled /\ OkCandidates # {})
        => /\ rs.probed = [i \in 1..FirstOk |-> i]
           /\ rs.ret = <<rs.want[FirstOk].url, rs.want[FirstOk].type>>

\* [A fails, B succeeds, C succeeds]: B was returned and C never probed
C4_Witness ==
    /\ ResolverCalled
    /\ rs.head[1] # "200" /\ rs.head[2] = "200" /\ rs.head[3] = "200"
    /\ rs.ret = <<rs.want[2].url, rs.want[2].type>>
    /\ rs.probed = <<1, 2>>

\* C5: an error or a non-200 answer only moves on to the next candidate: every
\* candidate up to the first 200 is probed, the resolver returns (None, None) if and
\* only if no candidate answered 200, and it never raises.
C5_ExhaustionOnly ==
    ResolverCalled
        => /\ ~rs.raised
           /\ (rs.ret = <<None, None>>) <=> (OkCandidates = {})
           /\ OkCandidates = {} => rs.probed = [i \in 1..Len(rs.head) |-> i]
           /\ \A i \in 1..Len(rs.probed) :
                 (i < Len(rs.probed) /\ rs.head[rs.probed[i]] # "200")
                     => rs.probed[i + 1] = rs.probed[i] + 1

\* a raising candidate and a 404 candidate were passed over and a later one returned
C5_Witness ==
    /\ ResolverCalled
    /\ rs.head[1] = "error" /\ rs.head[2] = "404" /\ rs.head[3] = "200"
    /\ rs.ret = <<rs.want[3].url, rs.want[3].type>>
    /\ ~rs.raised

\* every candidate failed, one of them by raising, and the caller got (None, None)
C5_WitnessNotFound ==
    /\ ResolverCalled
    /\ OkCandidates = {}
    /\ \E i \in 1..Len(rs.head) : rs.head[i] = "error"
    /\ rs.ret = <<None, None>>

(***************************************************************************)
(* Cache claims                                                            *)
(***************************************************************************)
\* the last two calls were made on the same bill and session, Redis answering both
SameKeyCalls(op1, op2) ==
    /\ Len(hist) = 2
    /\ hist[1].op = op1 /\ hist[2].op = op2
    /\ hist[1].bill = hist[2].bill /\ hist[1].session = hist[2].session
    /\ hist[1].up /\ hist[2].up

\* C2: with the cache enabled and Redis answering, cache_analysis(bill, session,
\* result) followed immediately by get_cached_analysis(bill, session) returns result,
\* and get_cached_analysis right after invalidate_cache(bill, session) returns None.
C2_CacheRoundTrip ==
    /\ SameKeyCalls("put", "get") => hist[2].ret = hist[1].data
    /\ SameKeyCalls("invalidate", "get") => hist[2].ret = NoneDict

\* a read that followed a write returned the written result, which replaced another
C2_Witness ==
    /\ SameKeyCalls("put", "get")
    /\ hist[2].ret = SampleResult(2)

\* an entry was invalidated and the read that followed missed
C2_WitnessInvalidate ==
    /\ SameKeyCalls("invalidate", "get")
    /\ hist[2].ret = NoneDict
    /\ last_success # None

(***************************************************************************)
(* Pipeline claims                                                         *)
(***************************************************************************)
RunDone == run.who # "idle"

\* the identifier reached the resolver and no bill candidate answered 200
NoBillCandidate == RunDone /\ SpecValid(run.bill) /\ ~AnswersOk(run.up.bh)

\* C10: when no bill URL candidate answers 200, the run (inline or background task)
\* returns exists = false, success = false, error_code = BILL_NOT_FOUND, and sends
\* no GET.
C10_BillNotFound ==
    NoBillCandidate
        => /\ Has(run.out.result, "exists", FALSE)
           /\ Has(run.out.result, "success", FALSE)
           /\ Has(run.out.result, "error_code", "BILL_NOT_FOUND")
           /\ CountOf(run.out.log, "get_bill") = 0
           /\ CountOf(run.out.log, "get_fiscal") = 0

\* the part of C10 the inline pipeline and the task both keep: not-found shape, no GET
C10_NotFoundShape ==
    NoBillCandidate
        => /\ Has(run.out.result, "exists", FALSE)
           /\ Has(run.out.result, "success", FALSE)
           /\ run.who = "inline" => Has(run.out.result, "error_code", "BILL_NOT_FOUND")
           /\ CountOf(run.out.log, "get_bill") = 0
           /\ CountOf(run.out.log, "get_fiscal") = 0

(***************************************************************************)
(* Service claims                                                          *)
(***************************************************************************)
\* the last response answers a request whose cache check found an entry
CacheHadEntry ==
    /\ last.ep \in {"analyzeBill", "analyzeBillForAgentforce"}
    /\ last.had # NoneDict
    /\ ~last.force_refresh

\* C1: a request without force_refresh that finds a cached successful analysis of its
\* bill, written by an inline request or by a job poll, answers with that entry and
\* sends no resolver probe and no GET, on /analyzeBill and /analyzeBillForAgentforce.
C1_CacheHitNoRefetch ==
    CacheHadEntry
        => /\ last.log = <<>>
           /\ last.code = 200
           /\ last.ep = "analyzeBill" => last.body = DictSet(last.had, "cache_hit", TRUE)
           /\ last.ep = "analyzeBillForAgentforce"
                 => Has(last.had, "formatted_response", last.body.response)

\* the part of C1 that /analyzeBill keeps, whoever wrote the entry
C1_AnalyzeBillHit ==
    (CacheHadEntry /\ last.ep = "analyzeBill")
        => /\ last.log = <<>>
           /\ last.code = 200
           /\ last.body = DictSet(last.had, "cache_hit", TRUE)

\* the part of C1 that /analyzeBillForAgentforce keeps: entries with a formatted response
C1_AgentforceHit ==
    (CacheHadEntry /\ last.ep = "analyzeBillForAgentforce"
                   /\ "formatted_response" \in DOMAIN last.had)
        => /\ last.log = <<>>
           /\ last.code = 200
           /\ last.body.response = last.had.formatted_response

(***************************************************************************)
(* Text function claims                                                    *)
(***************************************************************************)
\* text[:n], character by character
FirstChars(text, n) == [i \in 1..(IF Len(text) < n THEN Len(text) ELSE n) |-> text[i]]

SummarizerCalled == fn.op \in {"summarize", "task_summarize"}

DegradationDefault(text) ==
    [fiscal_note_summary |-> FirstChars(text, 3000), total_fiscal_impact |-> 0]

\* C12: for every fiscal-note text, when the backend is unconfigured, unreachable,
\* answers a non-success status or returns output that is not the expected structure,
\* the summarizer returns exactly {fiscal_note_summary: text[:3000],
\* total_fiscal_impact: 0}, and it never raises.
C12_DegradationTotal ==
    SummarizerCalled
        => /\ ~fn.raised
           /\ fn.ai.class # "good" => fn.ret = DegradationDefault(fn.arg)

\* the reply is a JSON object whose total_fiscal_impact, if any, is a number
ReplyIsObject ==
    /\ fn.ai.state = "content"
    /\ \E i \in 1..Len(fn.ai.lines) : \E j \in 1..Len(fn.ai.lines[i]) :
          LET tok == fn.ai.lines[i][j]
          IN  tok.t = "value" /\ tok.v.kind = "object" /\ FormatsAsNumber(tok.v.d)

\* the part of C12 the summarizers keep: every failure but a reply that is a JSON object
\* of another structure gives the default, and no call raises
C12_DegradesUnlessObject ==
    SummarizerCalled
        => /\ ~fn.raised
           /\ (fn.ai.class # "good" /\ ~ReplyIsObject)
                 => fn.ret = DegradationDefault(fn.arg)

KeywordSet == {fiscal_keywords[k] : k \in 1..Len(fiscal_keywords)}

\* kw occurs in text, letters compared without regard to case
ContainsIgnoringCase(kw, text) ==
    \E i \in 1..(Len(text) - Len(kw) + 1) :
        \A j \in 1..Len(kw) : UpperChar(text[i + j - 1]) = UpperChar(kw[j])

\* C19: should_fetch_fiscal_note(text) is true if and only if the text contains one of
\* the 12 keywords as a substring, letters compared case-insensitively; the result
\* depends on the set of keywords only, not on their order.
C19_RelevanceGate ==
    /\ Cardinality(KeywordSet) = 12
    /\ fn.op \in {"gate", "task_gate"}
          => fn.ret.value = (\E kw \in KeywordSet : ContainsIgnoringCase(kw, fn.arg))

\* "Fiscal Impact Statement", which holds no other keyword, passes the gate
C19_Witness ==
    /\ fn.op = "gate"
    /\ fn.arg = <<"F", "i", "s", "c", "a", "l", " ", "I", "m", "p", "a", "c", "t", " ", "S", "t", "a", "t", "e", "m", "e", "n", "t">>
    /\ fn.ret.value = TRUE

\* C20: normalizing an extractor's output again changes nothing:
\* normalize(normalize(x)) = normalize(x).
C20_NormalizeIdempotent ==
    /\ fn.op = "extract_text"
          => extract_text_from_pdf_bytes([ok |-> TRUE, txt |-> fn.ret]) = fn.ret
    /\ fn.op = "task_extract_text"
          => task_extract_text_from_pdf_bytes([ok |-> TRUE, txt |-> fn.ret]) = fn.ret

\* a text with a run of four newlines was normalized to one with two
C20_Witness ==
    /\ fn.op = "extract_text"
    /\ fn.arg = <<"a", "\n", "\n", "\n", "\n", "a">>
    /\ fn.ret = <<"a", "\n", "\n", "a">>

(***************************************************************************)
(* Pipeline run claims                                                     *)
(***************************************************************************)
\* the text passes the relevance gate
GateOpen(text) == \E kw \in KeywordSet : ContainsIgnoringCase(kw, text)

\* every upstream step of the run answered: bill found, fetched and extracted, gate
\* open, fiscal note found, fetched and extracted, and a summary came back
FullFiscalRun ==
    /\ RunDone
    /\ SpecValid(run.bill)
    /\ AnswersOk(run.up.bh)
    /\ run.up.bg = "200"
    /\ run.up.bt # <<>>
    /\ GateOpen(run.up.bt)
    /\ AnswersOk(run.up.fh)
    /\ run.up.fg = "200"
    /\ run.up.ft # <<>>
    /\ DictGet(run.up.ai, "fiscal_note_summary", <<>>) # <<>>

C11_WitnessTask ==
    /\ FullFiscalRun
    /\ run.who = "task"
    /\ run.bill = RawHB150
    /\ Has(run.out.result, "bill_number", <<"H", "B", "0", "0", "1", "5", "0">>)
    /\ Has(run.out.result, "has_fiscal_note", TRUE)

\* the steps of the pipeline, in the order of the source
StepOrder ==
    <<"head_bill", "get_bill", "extract_bill", "gate",
      "head_fiscal", "get_fiscal", "extract_fiscal", "summarize_fiscal">>

\* the log with the probes of one resolver counted as one step, and without the bill
\* summary the inline pipeline computes between extraction and gate
StepsOf(log) ==
    LET l == SelectSeq(log, LAMBDA e : e # "summarize_bill")
        F[n \in 0..Len(l)] ==
            IF n = 0 THEN <<>>
            ELSE IF n > 1 /\ l[n] = l[n - 1] THEN F[n - 1]
            ELSE Append(F[n - 1], l[n])
    IN  F[Len(l)]

\* how many steps the upstream answers of the run let it take: it stops at the first
\* step that fails
StepsAllowed ==
    IF ~SpecValid(run.bill) THEN 0
    ELSE IF ~AnswersOk(run.up.bh) THEN 1
    ELSE IF run.up.bg # "200" THEN 2
    ELSE IF run.up.bt = <<>> THEN 3
    ELSE IF ~GateOpen(run.up.bt) THEN 4
    ELSE IF ~AnswersOk(run.up.fh) THEN 5
    ELSE IF run.up.fg # "200" THEN 6
    ELSE IF run.up.ft = <<>> THEN 7
    ELSE 8

\* C17: the steps of a run happen in the order bill URL resolution, bill fetch, bill
\* extraction, relevance gate, fiscal URL resolution, fiscal fetch, fiscal extraction,
\* fiscal summarization, each at most once, and the run stops at the first step that
\* fails: no later step executes.
C17_StepOrder ==
    RunDone => StepsOf(run.out.log) = SubSeq(StepOrder, 1, StepsAllowed)

\* a run that took all eight steps
C17_Witness ==
    /\ RunDone
    /\ StepsAllowed = 8
    /\ StepsOf(run.out.log) = StepOrder

\* a run whose fiscal GET failed after the resolver found the note: six steps
C17_WitnessStopped ==
    /\ RunDone
    /\ run.up.fg = "404"
    /\ StepsOf(run.out.log) = SubSeq(StepOrder, 1, 6)

ErrorCodes ==
    {"INVALID_BILL_FORMAT", "BILL_NOT_FOUND", "BILL_FETCH_FAILED", "TIMEOUT",
     "BILL_FETCH_ERROR", "PDF_EXTRACTION_FAILED"}

\* the code the claim gives to the first failing step of the run, "none" if no step of
\* the bill side fails
ExpectedCode ==
    IF ~SpecValid(run.bill) THEN "INVALID_BILL_FORMAT"
    ELSE IF ~AnswersOk(run.up.bh) THEN "BILL_NOT_FOUND"
    ELSE IF run.up.bg = "timeout" THEN "TIMEOUT"
    ELSE IF run.up.bg = "error" THEN "BILL_FETCH_ERROR"
    ELSE IF run.up.bg # "200" THEN "BILL_FETCH_FAILED"
    ELSE IF run.up.bt = <<>> THEN "PDF_EXTRACTION_FAILED"
    ELSE "none"

\* C18: every failed inline run returns success = false with one error_code of the
\* fixed set, chosen by the failing step: INVALID_BILL_FORMAT, BILL_NOT_FOUND,
\* BILL_FETCH_FAILED (non-200), TIMEOUT, BILL_FETCH_ERROR (other exception),
\* PDF_EXTRACTION_FAILED (empty text); no other run fails.
C18_StableErrorCodes ==
    run.who = "inline"
        => /\ Has(run.out.result, "success", FALSE) <=> ExpectedCode # "none"
           /\ Has(run.out.result, "success", FALSE)
                 => /\ Has(run.out.result, "error_code", ExpectedCode)
                    /\ ExpectedCode \in ErrorCodes

\* an inline run whose bill GET timed out answered TIMEOUT
C18_Witness ==
    /\ run.who = "inline"
    /\ run.up.bg = "timeout"
    /\ Has(run.out.result, "error_code", "TIMEOUT")
    /\ Has(run.out.result, "success", FALSE)

(***************************************************************************)
(* Dispatch, job and cache-write claims of the service                     *)
(***************************************************************************)
OversizedBills ==
    {<<"H", "B", "0", "0", "0", "0", "2">>, <<"S", "B", "0", "0", "0", "0", "1">>,
     <<"H", "B", "0", "0", "0", "0", "1">>}

\* the request asks for async execution or names a bill of the oversized list
WantsAsync(use_async, bill_number) ==
    use_async \/ IdShape(bill_number).letters \o SpecPad(IdShape(bill_number).digits)
                    \in OversizedBills

\* the step hands a request to the queue: a new job (only /analyzeBill enqueues)
Enqueues == Len(jobs') = Len(jobs) + 1

\* the /analyzeBill requests that go on to the inline pipeline run in this step
InlineRequests ==
    {r \in BagToSet(reqs') : r.ep = "analyzeBill" /\ CopiesIn(r, reqs') > CopiesIn(r, reqs)}

JobAccepted ==
    /\ last'.code = 202
    /\ Has(last'.body, "job_id", Len(jobs'))
    /\ last'.log = <<>>
    /\ reqs' = reqs
    /\ clock' = clock

\* C13 as stated: a request not served from the cache is handed to the queue (202 with
\* a job id, no inline run) if and only if it set use_async or its canonical identifier
\* is HB00002, SB00001 or HB00001; every other request runs inline.
C13_AsyncIffRequested ==
    [][/\ Enqueues => (WantsAsync(last'.use_async, last'.bill) /\ JobAccepted)
       /\ \A r \in InlineRequests : ~WantsAsync(r.use_async, r.bill)]_vars

\* C13 as amended: the request is handed to the queue if and only if it set use_async
\* or names an oversized bill, and the job queue exists and Redis takes the job;
\* otherwise, a failed enqueue included, it runs inline.
C13_AsyncIffQueueTakesIt ==
    [][/\ Enqueues => /\ WantsAsync(last'.use_async, last'.bill)
                       /\ job_queue.on /\ storeUp
                       /\ JobAccepted
       /\ \A r \in InlineRequests :
              ~(WantsAsync(r.use_async, r.bill) /\ job_queue.on /\ storeUp)]_vars

\* "HB 1", of the oversized list and without use_async, was accepted as a job
C13_Witness ==
    /\ last.ep = "analyzeBill"
    /\ last.bill = RawHB1
    /\ ~last.use_async
    /\ last.code = 202
    /\ Len(jobs) = 1 /\ jobs[1].bill = RawHB1

\* a request with use_async waits for its inline run: there is no job queue
C13_WitnessFallback ==
    /\ ~job_queue.on
    /\ \E r \in BagToSet(reqs) : r.ep = "analyzeBill" /\ r.use_async

\* an ordinary request waits for its inline run although the queue works
C13_WitnessInline ==
    /\ job_queue.on /\ storeUp
    /\ \E r \in BagToSet(reqs) : r.ep = "analyzeBill" /\ ~WantsAsync(r.use_async, r.bill)

\* the step is a poll of /job/<id> that answers
PollStep == last' # last /\ last'.ep = "job"

\* the poll of the step observed the job finished with a successful result
PollSawSuccess ==
    /\ last'.code = 200
    /\ Has(last'.body, "status", "completed")
    /\ last'.body.result.success

\* the key of (session, canonical bill number)
KeyOf(session, bill_number) == KeyPrefix \o session \o <<":">> \o bill_number

\* C14: a poll that observes a job finished with a successful result stores that result
\* under the key of (result session, result bill number), and an /analyzeBill request
\* for the job's bill reads that key: it is a cache hit with that result; a poll that
\* observes queued, processing or failed writes nothing.
C14_PollPopulatesCache ==
    [][PollStep
        => IF PollSawSuccess
           THEN LET result == last'.body.result
                    key == KeyOf(result.session, result.bill_number)
                    bill == jobs[last'.bill[1]].bill
                IN  /\ Entries(store', key)
                          = {[key |-> key, val |-> json_dumps(result), ttl |-> DefaultTTL]}
                    /\ get_cache_key(bill, CURRENT_SESSION) = key
                    /\ get_cached_analysis_on(CACHE_ENABLED', storeUp', store', bill,
                                              CURRENT_SESSION) = result
           ELSE store' = store]_vars

\* the last poll found job 1, for "HB 1", finished with success, and the entry is there
C14_Witness ==
    /\ last.ep = "job"
    /\ last.code = 200
    /\ Has(last.body, "status", "completed")
    /\ last.body.result.success
    /\ jobs[1].bill = RawHB1
    /\ get_cached_analysis(RawHB1, CURRENT_SESSION) = jobs[1].result

\* an /analyzeBill request for the job's bill is served the job's result from the cache
C14_WitnessHit ==
    /\ last.ep = "analyzeBill"
    /\ last.code = 200
    /\ last.had # NoneDict
    /\ Len(jobs) >= 1
    /\ jobs[1].status = "finished"
    /\ last.had = jobs[1].result

JobEdges ==
    {<<"queued", "started">>, <<"started", "finished">>, <<"started", "failed">>}

\* what a poll reports for a job status: queued and started both read "processing"
Reported(status) ==
    IF status = "finished" THEN "completed"
    ELSE IF status = "failed" THEN "failed"
    ELSE "processing"

C15_WitnessFinished ==
    /\ Len(jobs) >= 1
    /\ jobs[1].status = "finished"
    /\ last.ep = "job"
    /\ last.bill = <<1>>
    /\ Has(last.body, "status", "completed")

\* the step is a successful /analyzeBill run or a poll that saw success: the handler
\* calls cache_analysis, and Redis answers
WriteStep ==
    /\ last' # last
    /\ last'.code = 200
    /\ CACHE_ENABLED /\ storeUp
    /\ \/ last'.ep = "analyzeBill" /\ last'.log # <<>>
       \/ last'.ep = "job" /\ PollSawSuccess

\* C16: every cache write is an unconditional overwrite: whatever the key held, after
\* the write it holds exactly the value written, and no other key changes; so of two
\* requests, or a request and a poll, that wrote the same key, the later one wins.
C16_LastWriterWins ==
    [][WriteStep
        => LET data == IF last'.ep = "job" THEN last'.body.result ELSE last'.body
               key == KeyOf(data.session, data.bill_number)
           IN  store' = {e \in store : e.key # key}
                           \cup {[key |-> key, val |-> json_dumps(data),
                                  ttl |-> DefaultTTL]}]_vars

\* a request that missed the cache ran the pipeline and wrote over the entry another
\* request had written in the meantime; the cache holds the later value
C16_Witness ==
    /\ last.ep = "analyzeBill"
    /\ last.code = 200
    /\ last.had = NoneDict
    /\ ~last.force_refresh
    /\ last.over # NoneDict
    /\ last.over # last.body
    /\ get_cached_analysis(last.bill, CURRENT_SESSION) = last.body

\* a poll wrote the job's result over the entry of an inline request
C16_WitnessPoll ==
    /\ last.ep = "job"
    /\ last.code = 200
    /\ last.over # NoneDict
    /\ "formatted_response" \in DOMAIN last.over
    /\ get_cached_analysis(last.body.result.bill_number, CURRENT_SESSION)
          = last.body.result

(***************************************************************************)
(* Character budget                                                        *)
(***************************************************************************)
Min(a, b) == IF a < b THEN a ELSE b

\* C21: for a text of length n the budget is min(n, 10000) when n < 50000, 8000 when
\* 50000 <= n < 100000, 6000 when 100000 <= n < 150000 and 4000 when n >= 150000; it
\* never exceeds n and never exceeds 10000.
C21_TieredBudget ==
    fn.op \in {"text_limit", "task_text_limit"}
        => LET n == fn.arg[1]
               k == fn.ret.value
           IN  /\ n < 50000 => k = Min(n, 10000)
               /\ (50000 <= n /\ n < 100000) => k = 8000
               /\ (100000 <= n /\ n < 150000) => k = 6000
               /\ n >= 150000 => k = 4000
               /\ k <= n
               /\ k <= 10000

\* a text of exactly 50000 characters got the budget 8000
C21_Witness ==
    /\ fn.op = "text_limit"
    /\ fn.arg = <<50000>>
    /\ fn.ret.value = 8000

\* a text shorter than 10000 characters got its own length
C21_WitnessShort ==
    /\ fn.op = "task_text_limit"
    /\ fn.arg = <<9999>>
    /\ fn.ret.value = 9999

(***************************************************************************)
(* Cache lifetime and cache content claims of the service                  *)
(***************************************************************************)
\* the key an endpoint uses for the identifier of a request
RequestKey(bill_number) ==
    KeyOf(CURRENT_SESSION, IdShape(bill_number).letters \o SpecPad(IdShape(bill_number).digits))

\* the store d seconds later
Aged(st, d) == {[key |-> e.key, val |-> e.val, ttl |-> e.ttl - d] : e \in {x \in st : x.ttl > d}}

\* Redis holds a live entry under the key and answers
Readable(key) == CACHE_ENABLED /\ storeUp /\ Entries(store, key) # {}

\* the requests that leave their cache check for a pipeline run in this step
Admitted == {r \in BagToSet(reqs') : CopiesIn(r, reqs') > CopiesIn(r, reqs)}

\* C22: a result is written with a time-to-live of 86400 seconds; until they have
\* elapsed, reads of its key return it; once they have, the entry is gone, and a read
\* is a miss that goes on to a fresh pipeline run.
C22_DefaultTTL ==
    [][/\ \A e \in store' \ store :
              \/ e.ttl = DefaultTTL
              \/ \E o \in store : o.key = e.key /\ o.val = e.val /\ e.ttl < o.ttl /\ e.ttl > 0
       /\ \A o \in store :
              Entries(store', o.key) = {}
                  => \/ last'.ep = "cache_invalidate" /\ store' = store \ {o}
                     \/ \E d \in 1..DefaultTTL : d \in TickSteps /\ o.ttl <= d
                                                  /\ store' = Aged(store, d)
       /\ (last' # last /\ last'.ep = "analyzeBill" /\ clock' = clock
                        /\ ~last'.force_refresh /\ SpecValid(last'.bill)
                        /\ Readable(RequestKey(last'.bill)))
              => /\ last'.code = 200
                 /\ last'.log = <<>>
                 /\ \A e \in Entries(store, RequestKey(last'.bill)) :
                        e.val = json_dumps(last'.had)
                 /\ last'.body = DictSet(last'.had, "cache_hit", TRUE)
       /\ \A r \in Admitted :
              /\ r.ep = "analyzeBill" /\ ~r.force_refresh => ~Readable(RequestKey(r.bill))
              /\ r.had = NoneDict \/ r.ep = "analyzeBillForAgentforce"
       /\ (last' # last /\ last'.ep = "analyzeBill" /\ last'.had = NoneDict
                        /\ last'.code # 400)
              => last'.code = 202 \/ last'.log # <<>>]_vars

\* half the lifetime after the write, a request was served the entry, which lives on
C22_Witness ==
    /\ last.ep = "analyzeBill"
    /\ last.code = 200
    /\ last.had # NoneDict
    /\ Entries(store, RequestKey(last.bill))
          = {[key |-> RequestKey(last.bill), val |-> json_dumps(last.had),
              ttl |-> DefaultTTL \div 2]}

\* the entry an inline request wrote has expired: Redis answers and holds nothing
C22_WitnessExpired ==
    /\ last.ep = "analyzeBill"
    /\ last.code = 200
    /\ last.log # <<>>
    /\ CACHE_ENABLED /\ storeUp
    /\ last_success = last.bill
    /\ store = {}

\* the step is a handler answering with a failure (a rejected request or a failed
\* inline run of either endpoint), or a poll of a job that finished without success
FailedResultStep ==
    /\ last' # last
    /\ \/ last'.ep \in {"analyzeBill", "analyzeBillForAgentforce"}
             /\ last'.code \notin {200, 202}
       \/ last'.ep = "job" /\ last'.code = 200
             /\ Has(last'.body, "status", "completed") /\ ~last'.body.result.success

\* C23: every value stored under a "bill_analysis:" key is a result with success =
\* true; an inline run or a finished job whose result has success = false leaves the
\* cache unchanged.
C23_OnlySuccessCached ==
    [][/\ \A e \in store' :
              /\ SubSeq(e.key, 1, Len(KeyPrefix)) = KeyPrefix
              /\ Has(json_loads(e.val), "success", TRUE)
       /\ FailedResultStep => store' = store]_vars

\* an inline run failed while the cache held the entry of an earlier run: it is still
\* there, and it is a successful result
C23_Witness ==
    /\ last.ep = "analyzeBill"
    /\ last.log # <<>>
    /\ last.code \in {404, 500}
    /\ Has(last.body, "success", FALSE)
    /\ \E e \in store : e.ttl = DefaultTTL /\ json_loads(e.val).success

\* a poll found a job finished without success and the cache is empty
C23_WitnessPoll ==
    /\ last.ep = "job"
    /\ last.code = 200
    /\ Has(last.body, "status", "completed")
    /\ ~last.body.result.success
    /\ CACHE_ENABLED /\ storeUp
    /\ store = {}

(***************************************************************************)
(* Fiscal side of a pipeline run                                           *)
(***************************************************************************)
\* the run got the bill's text: identifier parsed, URL found, GET 200, text non-empty
BillTextExtracted ==
    /\ RunDone
    /\ SpecValid(run.bill)
    /\ AnswersOk(run.up.bh)
    /\ run.up.bg = "200"
    /\ run.up.bt # <<>>

\* the fiscal side yields no text: gate false, no URL, GET failed, or nothing extracted
NoFiscalText ==
    \/ ~GateOpen(run.up.bt)
    \/ ~AnswersOk(run.up.fh)
    \/ run.up.fg # "200"
    \/ run.up.ft = <<>>

\* C24: once the bill text is extracted non-empty the run returns success = true,
\* whatever happens on the fiscal side; when no fiscal text was obtained the result
\* has has_fiscal_note = false, an empty fiscal summary and total_fiscal_impact = 0.
C24_FiscalNeverFails ==
    BillTextExtracted
        => /\ Has(run.out.result, "success", TRUE)
           /\ NoFiscalText
                 => /\ Has(run.out.result, "has_fiscal_note", FALSE)
                    /\ Has(run.out.result, "fiscal_note_summary", <<>>)
                    /\ Has(run.out.result, "total_fiscal_impact", 0)

\* the fiscal GET raised after the resolver found the note, and the run succeeded
C24_Witness ==
    /\ BillTextExtracted
    /\ GateOpen(run.up.bt)
    /\ AnswersOk(run.up.fh)
    /\ run.up.fg = "error"
    /\ Has(run.out.result, "success", TRUE)
    /\ Has(run.out.result, "has_fiscal_note", FALSE)

\* C25: when the relevance gate is false the run probes no fiscal-note URL, fetches no
\* fiscal note and calls no fiscal summarizer, and the result has fiscal_note_url =
\* null and has_fiscal_note = false.
C25_GateGuardsLookup ==
    (BillTextExtracted /\ ~GateOpen(run.up.bt))
        => /\ CountOf(run.out.log, "head_fiscal") = 0
           /\ CountOf(run.out.log, "get_fiscal") = 0
           /\ CountOf(run.out.log, "extract_fiscal") = 0
           /\ CountOf(run.out.log, "summarize_fiscal") = 0
           /\ Has(run.out.result, "fiscal_note_url", None)
           /\ Has(run.out.result, "has_fiscal_note", FALSE)

\* a bill whose text has no keyword ran through the gate
C25_Witness ==
    /\ BillTextExtracted
    /\ run.up.bt = BillTextPlain
    /\ ~GateOpen(run.up.bt)
    /\ CountOf(run.out.log, "gate") = 1
    /\ Has(run.out.result, "success", TRUE)

\* what the other implementation returns on the inputs of the run
OtherResult ==
    IF run.who = "inline"
    THEN analyze_bill_task(run.bill, run.session, run.up, 1).result
    ELSE perform_bill_analysis(run.bill, run.session, run.up, 1).result

\* both results lack the field, or both have it with one value
SameField(a, b, k) ==
    /\ k \in DOMAIN a <=> k \in DOMAIN b
    /\ k \in DOMAIN a => a[k] = b[k]

ComparedFields ==
    {"success", "bill_number", "session", "bill_url", "fiscal_note_url", "bill_text",
     "fiscal_note_summary", "total_fiscal_impact", "exists"}

\* C26: on the same identifier, session and upstream answers, analyze_bill_task and
\* perform_bill_analysis return the same success flag and the same bill_number,
\* session, bill_url, fiscal_note_url, bill_text, fiscal_note_summary,
\* total_fiscal_impact, has_fiscal_note and exists.
C26_SyncAsyncEquivalent ==
    RunDone
        => \A k \in ComparedFields \cup {"has_fiscal_note"} :
              SameField(run.out.result, OtherResult, k)

\* the part of C26 the two implementations keep: every compared field but
\* has_fiscal_note, and has_fiscal_note too unless a fiscal text came with no summary
C26_EquivalentButFlag ==
    RunDone
        => /\ \A k \in ComparedFields : SameField(run.out.result, OtherResult, k)
           /\ (NoFiscalText \/ DictGet(run.up.ai, "fiscal_note_summary", <<>>) # <<>>)
                 => SameField(run.out.result, OtherResult, "has_fiscal_note")

\* a fiscal text was extracted and the summarizer's reply carries no summary
C26_WitnessEmptySummary ==
    /\ BillTextExtracted
    /\ ~NoFiscalText
    /\ DictGet(run.up.ai, "fiscal_note_summary", <<>>) = <<>>
    /\ run.out.result.has_fiscal_note # OtherResult.has_fiscal_note

\* C30: in every successful result has_fiscal_note = true implies a non-null
\* fiscal_note_url and an open gate, and fiscal_note_url = null implies
\* has_fiscal_note = false, an empty fiscal_note_summary and total_fiscal_impact = 0,
\* inline and in the task.
C30_FiscalFieldsConsistent ==
    (RunDone /\ Has(run.out.result, "success", TRUE))
        => LET result == run.out.result
           IN  /\ result.has_fiscal_note
                     => result.fiscal_note_url # None /\ GateOpen(run.up.bt)
               /\ result.fiscal_note_url = None
                     => /\ result.has_fiscal_note = FALSE
                        /\ result.fiscal_note_summary = <<>>
                        /\ result.total_fiscal_impact = 0

\* a task result with a fiscal note and its URL
C30_Witness ==
    /\ run.who = "task"
    /\ Has(run.out.result, "success", TRUE)
    /\ run.out.result.has_fiscal_note
    /\ run.out.result.fiscal_note_url # None

\* an inline result with no fiscal note URL: the resolver found none
C30_WitnessNoUrl ==
    /\ run.who = "inline"
    /\ Has(run.out.result, "success", TRUE)
    /\ GateOpen(run.up.bt)
    /\ run.out.result.fiscal_note_url = None
    /\ ~run.out.result.has_fiscal_note

(***************************************************************************)
(* force_refresh, async fallback and cache outages                         *)
(***************************************************************************)
\* the step is /analyzeBill answering at once: rejection, cache hit or job acceptance
AnswersAtOnce == last' # last /\ last'.ep = "analyzeBill" /\ clock' = clock

\* the step is /analyzeBill answering after its inline pipeline run
AnswersAfterRun == last' # last /\ last'.ep = "analyzeBill" /\ clock' = clock + 1

\* C27: a /analyzeBill request with force_refresh = true is never answered from the
\* cache: it runs the pipeline inline or is enqueued; an inline success overwrites the
\* entry of the bill with the fresh result, an inline failure leaves the cache as it is.
C27_ForceRefresh ==
    [][/\ (AnswersAtOnce /\ last'.force_refresh /\ last'.code # 400)
              => /\ last'.code = 202
                 /\ Len(jobs') = Len(jobs) + 1
                 /\ last'.had = NoneDict
       /\ (AnswersAfterRun /\ last'.force_refresh)
              => /\ last'.had = NoneDict
                 /\ last'.log # <<>>
                 /\ last'.code = 200
                       => /\ Has(last'.body, "cache_hit", FALSE)
                          /\ (CACHE_ENABLED /\ storeUp)
                                => Entries(store', RequestKey(last'.bill))
                                      = {[key |-> RequestKey(last'.bill),
                                          val |-> json_dumps(last'.body),
                                          ttl |-> DefaultTTL]}
                 /\ last'.code # 200 => store' = store]_vars

\* a force_refresh request ran although the cache held the bill, and wrote over it
C27_Witness ==
    /\ last.ep = "analyzeBill"
    /\ last.force_refresh
    /\ last.code = 200
    /\ last.log # <<>>
    /\ last.over # NoneDict
    /\ last.over # last.body
    /\ get_cached_analysis(last.bill, CURRENT_SESSION) = last.body

\* a force_refresh request failed inline and the earlier entry is still there
C27_WitnessFailure ==
    /\ last.ep = "analyzeBill"
    /\ last.force_refresh
    /\ last.code \in {404, 500}
    /\ Entries(store, RequestKey(last.bill)) # {}

\* C28: when async execution is selected but there is no job queue or the enqueue
\* raises, the request goes on to the inline pipeline: it is answered with an inline
\* result or error, never with a job acceptance, and no job is created for it.
C28_AsyncFallback ==
    [][/\ \A r \in Admitted :
              (r.ep = "analyzeBill" /\ WantsAsync(r.use_async, r.bill))
                  => /\ ~job_queue.on \/ ~storeUp
                     /\ jobs' = jobs
                     /\ job_queue' = job_queue
                     /\ last' = last
       /\ (Enqueues \/ (last' # last /\ last'.code = 202)) => job_queue.on /\ storeUp
       /\ AnswersAfterRun
              => /\ last'.code \in {200, 404, 500}
                 /\ last'.log # <<>>
                 /\ "job_id" \notin DOMAIN last'.body
                 /\ jobs' = jobs
                 /\ job_queue' = job_queue]_vars

\* a request with use_async was answered with an inline result: there is no job queue
\* and no job
C28_Witness ==
    /\ last.ep = "analyzeBill"
    /\ last.use_async
    /\ last.code = 200
    /\ last.log # <<>>
    /\ ~job_queue.on
    /\ jobs = <<>>

\* the same with a job queue: the enqueue raised, Redis not answering
C28_WitnessRaised ==
    /\ last.ep = "analyzeBill"
    /\ WantsAsync(last.use_async, last.bill)
    /\ last.code \in {200, 404, 500}
    /\ last.log # <<>>
    /\ job_queue.on
    /\ jobs = <<>>

\* the cache is disabled or Redis raises on every call
CacheDown == ~CACHE_ENABLED \/ ~storeUp

\* the step is one of the service or of the worker, not the passing of time
HandlerStep == reqs' # reqs \/ last' # last \/ jobs' # jobs

\* the body /analyzeBill returns for a pipeline result when there is no cache
BodyWithoutCache(result) ==
    IF result.success THEN DictSet(result, "cache_hit", FALSE) ELSE result

C29_WitnessDisabled ==
    /\ ~CACHE_ENABLED
    /\ last.ep = "analyzeBill"
    /\ last.code = 200
    /\ Has(last.body, "success", TRUE)

====
